---- MODULE Spec2Model ----
(***************************************************************************)
(* A model of RAMCloud's CoordinatorServerList (CoordinatorServerList.cc): *)
(* the coordinator's versioned membership list, its durable log records,   *)
(* replication groups and the background updater that pushes the list to   *)
(* the cluster.                                                            *)
(*                                                                         *)
(* The operations of the class are pure operators over a record `s' that   *)
(* holds the fields of the object and of its collaborators; every action   *)
(* applies one public operation (one critical section) to the current      *)
(* state and commits the result.                                           *)
(***************************************************************************)
EXTENDS Integers, Sequences, FiniteSets, TLC

\* ------------------------------------------------------------------ bounds
\* Mutator calls (enlistServer, serverDown, removeAfterRecovery,
\* setMasterRecoveryInfo) made during one run.
MaxCalls == 4
\* Coordinator restarts (crash, then replay of the durable log) in one run.
MaxRestarts == 1
\* Mutator calls in the runs with coordinator restarts, and in the runs
\* with the updater thread.
MaxRecCalls == 3
MaxUpdCalls == 3
\* Mutator calls in the runs that check convergence of the updater.
MaxLiveCalls == 2
\* enlistServer calls in the runs that build replication groups.
MaxGroupCalls == 6
\* Mutator calls in the runs that check that the updater starves no server.
MaxFairCalls == 2
\* Mutator calls in the runs that serialize the list.
MaxSerCalls == 3
\* Mutator calls in the runs in which an append to the durable log fails.
MaxFailCalls == 3
\* select() calls of one BackupSelector, and the host lists it fetches
\* from the coordinator, in one run.
MaxSelects == 2
MaxRefreshes == 2

\* ------------------------------------------------------- program constants
\* ~0UL in the code: a value above every version a run reaches.
UNINITIALIZED_VERSION == 2147483647
\* Replication group size (createReplicationGroup).
numReplicas == 3
\* updateLoop's initial and incremental rpc pool size.
max_rpcs_step == 8
\* Segment::SEGMENT_SIZE, in bytes.
SEGMENT_SIZE == 8388608

MASTER_SERVICE == "MASTER"
BACKUP_SERVICE == "BACKUP"
MEMBERSHIP_SERVICE == "MEMBERSHIP"

UP == "UP"
CRASHED == "CRASHED"
DOWN == "DOWN"

\* ------------------------------------------------------------ input sets
\* The service masks of the servers that enlist: in the runs without the
\* updater (nothing there reads MEMBERSHIP), and in the runs with it.
ServiceMasks ==
    { {MASTER_SERVICE, MEMBERSHIP_SERVICE},
      {BACKUP_SERVICE},
      {MASTER_SERVICE, BACKUP_SERVICE} }
UpdServiceMasks ==
    { {MASTER_SERVICE, MEMBERSHIP_SERVICE},
      {BACKUP_SERVICE, MEMBERSHIP_SERVICE},
      {BACKUP_SERVICE} }
LiveServiceMasks ==
    { {MASTER_SERVICE, MEMBERSHIP_SERVICE},
      {BACKUP_SERVICE} }
Locators == {"tcp:a"}
ReadSpeeds == {100}
RecoveryInfos == {7}

\* ---------------------------------------------------------------- ServerId
ServerId(index, generation) == [index |-> index, generation |-> generation]
\* ServerId(): the invalid id (generation ~0, written -1 here).
InvalidServerId == ServerId(0, -1)
isValid(id) == id.generation # -1

\* ------------------------------------------------------------------ Entry
\* Entry::Entry(serverId, serviceLocator, services)
Entry(serverId, serviceLocator, services) ==
    [ serverId |-> serverId,
      serviceLocator |-> serviceLocator,
      services |-> services,
      expectedReadMBytesPerSec |-> 0,
      status |-> UP,
      replicationId |-> 0,
      masterRecoveryInfo |-> 0,
      verifiedVersion |-> UNINITIALIZED_VERSION,
      updateVersion |-> UNINITIALIZED_VERSION,
      serverInfoLogId |-> 0,
      serverUpdateLogId |-> 0 ]

\* Entry::isMaster / Entry::isBackup: the service is offered and the server
\* has not crashed.
isMaster(e) == e.status = UP /\ MASTER_SERVICE \in e.services
isBackup(e) == e.status = UP /\ BACKUP_SERVICE \in e.services

\* Entry::serialize: the ProtoBuf::ServerList_Entry of an entry.
serialize(e) ==
    [ services |-> e.services,
      serverId |-> e.serverId,
      serviceLocator |-> e.serviceLocator,
      status |-> e.status,
      expectedReadMBytesPerSec |->
          IF isBackup(e) THEN e.expectedReadMBytesPerSec ELSE 0,
      replicationId |-> e.replicationId ]

\* A row of the pending update: the serialized entry, tagged with the
\* method that appended it and with the number of records the durable log
\* held at that time (the tags are bookkeeping of the model).
Row(e, by, logged) == [entry |-> serialize(e), by |-> by, logged |-> logged]

\* ------------------------------------------------------------ server list
\* serverList is a vector of GenerationNumberEntryPair, indexed from 0; a
\* Tub<Entry> is the empty sequence or a one-element sequence.
Size(sl) == Cardinality(DOMAIN sl)
EmptyPair == [entry |-> <<>>, nextGenerationNumber |-> 0]
resize(sl, n) ==
    [i \in 0..(n - 1) |-> IF i \in DOMAIN sl THEN sl[i] ELSE EmptyPair]
Occupied(sl, i) == i \in DOMAIN sl /\ sl[i].entry # <<>>
EntryAt(sl, i) == sl[i].entry[1]

\* iget(ServerId) / getEntry(ServerId): is the id in the list?
iget(sl, id) == Occupied(sl, id.index) /\ EntryAt(sl, id.index).serverId = id

Throw(s) == [s EXCEPT !.exc = "ServerListException"]
Threw(s) == s.exc # "none"

\* ------------------------------------------------------------ durable log
\* LogCabinHelper::appendProtoBuf: append a record, invalidate the given
\* entry ids; the new record's entry id is its position in the log.
invalidateIds(log, ids) ==
    [i \in 1..Len(log) |->
        IF i \in ids THEN [log[i] EXCEPT !.valid = FALSE] ELSE log[i]]
appendProtoBuf(log, rec, invalidates) ==
    Append(invalidateIds(log, invalidates), rec)
LogRecord(type, serverId, services, readSpeed, locator, info) ==
    [ entry_type |-> type, server_id |-> serverId, service_mask |-> services,
      read_speed |-> readSpeed, service_locator |-> locator,
      master_recovery_info |-> info, valid |-> TRUE ]

\* ----------------------------------------------------- internal methods
\* An add() that leaves the slot's next generation number at the
\* generation of the server it stores.
add_SameGeneration(s, serverId, serviceLocator, serviceMask, readSpeed) ==
    LET index == serverId.index
        sl0 == IF index >= Size(s.serverList)
               THEN resize(s.serverList, index + 1) ELSE s.serverList
        e0 == Entry(serverId, serviceLocator, serviceMask)
        e == IF BACKUP_SERVICE \in serviceMask
             THEN [e0 EXCEPT !.expectedReadMBytesPerSec = readSpeed] ELSE e0
    IN [s EXCEPT
          !.serverList = [sl0 EXCEPT ![index] =
              [entry |-> <<e>>,
               nextGenerationNumber |-> serverId.generation]],
          !.numberOfMasters =
              IF MASTER_SERVICE \in serviceMask THEN @ + 1 ELSE @,
          !.numberOfBackups =
              IF BACKUP_SERVICE \in serviceMask THEN @ + 1 ELSE @,
          !.update = Append(@, Row(e, "add", Len(s.log))),
          !.events = Append(@, <<serverId, "SERVER_ADDED">>)]

\* CoordinatorServerList::add
add(s, serverId, serviceLocator, serviceMask, readSpeed) ==
    LET index == serverId.index
        sl0 == IF index >= Size(s.serverList)
               THEN resize(s.serverList, index + 1) ELSE s.serverList
        e0 == Entry(serverId, serviceLocator, serviceMask)
        e == IF BACKUP_SERVICE \in serviceMask
             THEN [e0 EXCEPT !.expectedReadMBytesPerSec = readSpeed] ELSE e0
    IN [s EXCEPT
          !.serverList = [sl0 EXCEPT ![index] =
              [entry |-> <<e>>,
               nextGenerationNumber |-> serverId.generation + 1]],
          !.numberOfMasters =
              IF MASTER_SERVICE \in serviceMask THEN @ + 1 ELSE @,
          !.numberOfBackups =
              IF BACKUP_SERVICE \in serviceMask THEN @ + 1 ELSE @,
          !.update = Append(@, Row(e, "add", Len(s.log))),
          !.events = Append(@, <<serverId, "SERVER_ADDED">>)]

\* CoordinatorServerList::addServerInfoLogId
addServerInfoLogId(s, serverId, entryId) ==
    IF ~iget(s.serverList, serverId) THEN Throw(s)
    ELSE [s EXCEPT
            !.serverList[serverId.index].entry[1].serverInfoLogId = entryId]

\* CoordinatorServerList::addServerUpdateLogId
addServerUpdateLogId(s, serverId, entryId) ==
    IF ~iget(s.serverList, serverId) THEN Throw(s)
    ELSE [s EXCEPT
            !.serverList[serverId.index].entry[1].serverUpdateLogId = entryId]

\* A crashed() that leaves numberOfMasters and numberOfBackups alone.
crashed_KeepsCounts(s, serverId) ==
    IF ~iget(s.serverList, serverId) THEN Throw(s)
    ELSE LET index == serverId.index
             entry == EntryAt(s.serverList, index)
             e == [entry EXCEPT !.status = CRASHED]
         IN IF entry.status = CRASHED THEN s
            ELSE [s EXCEPT
                    !.serverList[index].entry = <<e>>,
                    !.update = Append(@, Row(e, "crashed", Len(s.log))),
                    !.events = Append(@, <<serverId, "SERVER_CRASHED">>)]

\* A crashed() that marks the server and tells the trackers also when the
\* server is CRASHED already.
crashed_Again(s, serverId) ==
    IF ~iget(s.serverList, serverId) THEN Throw(s)
    ELSE LET index == serverId.index
             entry == EntryAt(s.serverList, index)
             e == [entry EXCEPT !.status = CRASHED]
         IN [s EXCEPT
               !.numberOfMasters = IF isMaster(entry) THEN @ - 1 ELSE @,
               !.numberOfBackups = IF isBackup(entry) THEN @ - 1 ELSE @,
               !.serverList[index].entry = <<e>>,
               !.update = Append(@, Row(e, "crashed", Len(s.log))),
               !.events = Append(@, <<serverId, "SERVER_CRASHED">>)]

\* CoordinatorServerList::crashed
crashed(s, serverId) ==
    IF ~iget(s.serverList, serverId) THEN Throw(s)
    ELSE LET index == serverId.index
             entry == EntryAt(s.serverList, index)
             e == [entry EXCEPT !.status = CRASHED]
         IN IF entry.status = CRASHED THEN s
            ELSE [s EXCEPT
                    !.numberOfMasters = IF isMaster(entry) THEN @ - 1 ELSE @,
                    !.numberOfBackups = IF isBackup(entry) THEN @ - 1 ELSE @,
                    !.serverList[index].entry = <<e>>,
                    !.update = Append(@, Row(e, "crashed", Len(s.log))),
                    !.events = Append(@, <<serverId, "SERVER_CRASHED">>)]

\* A firstFreeIndex that never re-uses a slot.
firstFreeIndex_NoReuse(sl) ==
    IF Size(sl) = 0 THEN 1 ELSE Size(sl)

\* CoordinatorServerList::firstFreeIndex: the index it returns (the list
\* is resized by generateUniqueId below).
firstFreeIndex(sl) ==
    LET free == {i \in 1..(Size(sl) - 1) : ~Occupied(sl, i)}
    IN IF free # {} THEN CHOOSE i \in free : \A j \in free : i <= j
       ELSE IF Size(sl) = 0 THEN 1 ELSE Size(sl)

\* CoordinatorServerList::generateUniqueId; the id is left in s.ret.
generateUniqueId(s) ==
    LET index == firstFreeIndex(s.serverList)
        sl0 == IF index >= Size(s.serverList)
               THEN resize(s.serverList, index + 1) ELSE s.serverList
        id == ServerId(index, sl0[index].nextGenerationNumber)
    IN [s EXCEPT
          !.serverList = [sl0 EXCEPT ![index] =
              [entry |-> <<Entry(id, "", {})>>,
               nextGenerationNumber |-> sl0[index].nextGenerationNumber + 1]],
          !.ret = id]

\* A remove() that does not call crashed() first.
remove_NoCrashed(s, serverId) ==
    IF ~iget(s.serverList, serverId) THEN Throw(s)
    ELSE LET index == serverId.index
             e == [EntryAt(s.serverList, index) EXCEPT !.status = DOWN]
         IN [s EXCEPT
               !.update = Append(@, Row(e, "remove", Len(s.log))),
               !.serverList[index].entry = <<>>,
               !.events = Append(@, <<serverId, "SERVER_REMOVED">>)]

\* CoordinatorServerList::remove
remove(s, serverId) ==
    IF ~iget(s.serverList, serverId) THEN Throw(s)
    ELSE LET s1 == crashed(s, serverId)
             index == serverId.index
             e == [EntryAt(s1.serverList, index) EXCEPT !.status = DOWN]
         IN [s1 EXCEPT
               !.update = Append(@, Row(e, "remove", Len(s.log))),
               !.serverList[index].entry = <<>>,
               !.events = Append(@, <<serverId, "SERVER_REMOVED">>)]

\* CoordinatorServerList::setReplicationId
setReplicationId(s, serverId, replicationId) ==
    IF ~iget(s.serverList, serverId) THEN Throw(s)
    ELSE LET index == serverId.index
             entry == EntryAt(s.serverList, index)
             e == [entry EXCEPT !.replicationId = replicationId]
         IN IF entry.status # UP THEN s
            ELSE [s EXCEPT
                    !.serverList[index].entry = <<e>>,
                    !.update = Append(@, Row(e, "setReplicationId",
                                             Len(s.log)))]

\* CoordinatorServerList::assignReplicationGroup (its result is not used
\* by its callers); ids is the vector of group members.
RECURSIVE assignReplicationGroup(_, _, _)
assignReplicationGroup(s, replicationId, ids) ==
    IF ids = <<>> THEN s
    ELSE IF ~iget(s.serverList, Head(ids)) THEN s
    ELSE assignReplicationGroup(
             setReplicationId(s, Head(ids), replicationId),
             replicationId, Tail(ids))

\* The ids of the entries, in index order from index i, that satisfy
\* isBackup() and carry replication id `rid'.
RECURSIVE backupsWithReplicationId(_, _, _)
backupsWithReplicationId(sl, i, rid) ==
    IF i >= Size(sl) THEN <<>>
    ELSE (IF Occupied(sl, i) /\ isBackup(EntryAt(sl, i))
             /\ EntryAt(sl, i).replicationId = rid
          THEN <<EntryAt(sl, i).serverId>> ELSE <<>>)
         \o backupsWithReplicationId(sl, i + 1, rid)

\* A createReplicationGroup loop that gives every group the same id.
RECURSIVE createGroups_SameId(_, _)
createGroups_SameId(s, freeBackups) ==
    IF Len(freeBackups) < numReplicas THEN s
    ELSE LET n == Len(freeBackups)
             group == [k \in 1..numReplicas |-> freeBackups[n + 1 - k]]
             s1 == assignReplicationGroup(s, s.nextReplicationId, group)
         IN createGroups_SameId(s1, SubSeq(freeBackups, 1, n - numReplicas))

\* The while loop of createReplicationGroup: take numReplicas ids from the
\* back of freeBackups, assign them nextReplicationId, repeat.
RECURSIVE createGroups(_, _)
createGroups(s, freeBackups) ==
    IF Len(freeBackups) < numReplicas THEN s
    ELSE LET n == Len(freeBackups)
             group == [k \in 1..numReplicas |-> freeBackups[n + 1 - k]]
             s1 == assignReplicationGroup(s, s.nextReplicationId, group)
         IN createGroups(
                [s1 EXCEPT !.nextReplicationId = @ + 1],
                SubSeq(freeBackups, 1, n - numReplicas))

\* CoordinatorServerList::createReplicationGroup
createReplicationGroup(s) ==
    createGroups(s, backupsWithReplicationId(s.serverList, 0, 0))

\* The for loop of removeReplicationGroup from index i: the group grows
\* as members are met, and is reassigned in every iteration in which it
\* is not empty.
RECURSIVE removeGroupLoop(_, _, _, _)
removeGroupLoop(s, i, groupId, group) ==
    IF i >= Size(s.serverList) THEN s
    ELSE LET sl == s.serverList
             g == IF Occupied(sl, i) /\ isBackup(EntryAt(sl, i))
                     /\ EntryAt(sl, i).replicationId = groupId
                  THEN Append(group, EntryAt(sl, i).serverId) ELSE group
             s1 == IF g # <<>> THEN assignReplicationGroup(s, 0, g) ELSE s
         IN removeGroupLoop(s1, i + 1, groupId, g)

\* CoordinatorServerList::removeReplicationGroup
removeReplicationGroup(s, groupId) ==
    IF groupId = 0 THEN s ELSE removeGroupLoop(s, 0, groupId, <<>>)

\* A pushUpdate that publishes a batch for an empty pending update too.
pushUpdate_EmptyToo(s) ==
    LET batch == [version |-> s.version + 1,
                  incremental |-> s.update,
                  full |-> <<>>, logged |-> Len(s.log)]
    IN [s EXCEPT
          !.version = @ + 1,
          !.updates = Append(@, batch),
          !.published = Append(@, batch),
          !.notifyUpdater = TRUE,
          !.update = <<>>]

\* CoordinatorServerList::pushUpdate
pushUpdate(s) ==
    IF Len(s.update) = 0 THEN s
    ELSE LET batch == [version |-> s.version + 1,
                       incremental |-> s.update,
                       full |-> <<>>, logged |-> Len(s.log)]
         IN [s EXCEPT
               !.version = @ + 1,
               !.updates = Append(@, batch),
               !.published = Append(@, batch),
               !.notifyUpdater = TRUE,
               !.update = <<>>]

\* ------------------------------------------------- logged operations
\* EnlistServer::complete; the new id is left in s.ret.
EnlistServer_complete(s, newServerId, serviceMask, readSpeed, serviceLocator, entryId) ==
    LET s1 == add(s, newServerId, serviceLocator, serviceMask, readSpeed)
        entry == EntryAt(s1.serverList, newServerId.index)
        s2 == IF isBackup(entry) THEN createReplicationGroup(s1) ELSE s1
        state == LogRecord("ServerEnlisted", newServerId, serviceMask,
                           readSpeed, serviceLocator, 0)
        newEntryId == Len(s2.log) + 1
        s3 == [s2 EXCEPT !.log = appendProtoBuf(@, state, {entryId})]
        s4 == addServerInfoLogId(s3, newServerId, newEntryId)
    IN [s4 EXCEPT !.ret = newServerId]

\* EnlistServer::execute
EnlistServer_execute(s, serviceMask, readSpeed, serviceLocator) ==
    LET s1 == generateUniqueId(s)
        newServerId == s1.ret
        state == LogRecord("ServerEnlisting", newServerId, serviceMask,
                           readSpeed, serviceLocator, 0)
        entryId == Len(s1.log) + 1
        s2 == [s1 EXCEPT !.log = appendProtoBuf(@, state, {})]
        s3 == addServerInfoLogId(s2, newServerId, entryId)
    IN EnlistServer_complete(s3, newServerId, serviceMask, readSpeed,
                             serviceLocator, entryId)

\* A ServerDown::complete that removes the server whatever it offers.
ServerDown_complete_RemovesAll(s, serverId, entryId) ==
    IF ~iget(s.serverList, serverId) THEN Throw(s)
    ELSE LET entry == EntryAt(s.serverList, serverId.index)
             serverInfoLogId == entry.serverInfoLogId
             serverUpdateLogId == entry.serverUpdateLogId
             s2 == remove(crashed(s, serverId), serverId)
             s3 == [s2 EXCEPT !.recoveries = Append(@, entry)]
             s4 == removeReplicationGroup(s3, entry.replicationId)
             s5 == createReplicationGroup(s4)
             invalidates ==
                 {serverInfoLogId, entryId}
                 \cup (IF serverUpdateLogId # 0
                       THEN {serverUpdateLogId} ELSE {})
         IN [s5 EXCEPT !.log = invalidateIds(@, invalidates)]

\* A ServerDown::complete that starts a master recovery only for a server
\* that offers MASTER.
ServerDown_complete_MastersOnly(s, serverId, entryId) ==
    IF ~iget(s.serverList, serverId) THEN Throw(s)
    ELSE LET entry == EntryAt(s.serverList, serverId.index)
             serverInfoLogId == entry.serverInfoLogId
             serverUpdateLogId == entry.serverUpdateLogId
             s1 == crashed(s, serverId)
             s2 == IF MASTER_SERVICE \notin entry.services
                   THEN remove(s1, serverId) ELSE s1
             s3 == IF MASTER_SERVICE \in entry.services
                   THEN [s2 EXCEPT !.recoveries = Append(@, entry)] ELSE s2
             s4 == removeReplicationGroup(s3, entry.replicationId)
             s5 == createReplicationGroup(s4)
             invalidates ==
                 {serverInfoLogId, entryId}
                 \cup (IF serverUpdateLogId # 0
                       THEN {serverUpdateLogId} ELSE {})
         IN [s5 EXCEPT !.log = invalidateIds(@, invalidates)]

\* ServerDown::complete
ServerDown_complete(s, serverId, entryId) ==
    IF ~iget(s.serverList, serverId) THEN Throw(s)
    ELSE LET entry == EntryAt(s.serverList, serverId.index)
             serverInfoLogId == entry.serverInfoLogId
             serverUpdateLogId == entry.serverUpdateLogId
             s1 == crashed(s, serverId)
             s2 == IF MASTER_SERVICE \notin entry.services
                   THEN remove(s1, serverId) ELSE s1
             s3 == [s2 EXCEPT !.recoveries = Append(@, entry)]
             s4 == removeReplicationGroup(s3, entry.replicationId)
             s5 == createReplicationGroup(s4)
             invalidates ==
                 {serverInfoLogId, entryId}
                 \cup (IF serverUpdateLogId # 0
                       THEN {serverUpdateLogId} ELSE {})
         IN [s5 EXCEPT !.log = invalidateIds(@, invalidates)]

\* A ServerDown::execute that completes the operation before it appends
\* the ServerDown record.
ServerDown_execute_CompleteFirst(s, serverId) ==
    LET state == LogRecord("ServerDown", serverId, {}, 0, "", 0)
        entryId == Len(s.log) + 1
        s1 == ServerDown_complete(s, serverId, entryId)
    IN IF Threw(s1) THEN s1
       ELSE [s1 EXCEPT !.log = appendProtoBuf(@, state, {})]

\* ServerDown::execute
ServerDown_execute(s, serverId) ==
    LET state == LogRecord("ServerDown", serverId, {}, 0, "", 0)
        entryId == Len(s.log) + 1
    IN ServerDown_complete(
           [s EXCEPT !.log = appendProtoBuf(@, state, {})],
           serverId, entryId)

\* SetMasterRecoveryInfo::complete. The catch block hands invalidate() a
\* vector built by vector<EntryId>(entryId): entryId elements, each 0.
SetMasterRecoveryInfo_complete(s, serverId, recoveryInfo, entryId) ==
    IF ~iget(s.serverList, serverId)
    THEN Throw([s EXCEPT !.log =
             invalidateIds(@, IF entryId > 0 THEN {0} ELSE {})])
    ELSE [addServerUpdateLogId(s, serverId, entryId) EXCEPT
            !.serverList[serverId.index].entry[1].masterRecoveryInfo =
                recoveryInfo]

\* SetMasterRecoveryInfo::execute
SetMasterRecoveryInfo_execute(s, serverId, recoveryInfo) ==
    IF ~iget(s.serverList, serverId) THEN Throw(s)
    ELSE LET oldEntryId == EntryAt(s.serverList, serverId.index).serverUpdateLogId
             read == IF oldEntryId # 0
                     THEN [s.log[oldEntryId] EXCEPT !.valid = TRUE]
                     ELSE LogRecord("ServerUpdate", serverId, {}, 0, "", 0)
             serverUpdate == [read EXCEPT !.master_recovery_info = recoveryInfo]
             invalidates == IF oldEntryId # 0 THEN {oldEntryId} ELSE {}
             newEntryId == Len(s.log) + 1
         IN SetMasterRecoveryInfo_complete(
                [s EXCEPT !.log = appendProtoBuf(@, serverUpdate, invalidates)],
                serverId, recoveryInfo, newEntryId)

\* ------------------------------------------------------ public methods
\* CoordinatorServerList::serverDown(Lock&, ServerId)
serverDown(s, serverId) ==
    LET s1 == ServerDown_execute(s, serverId)
    IN IF Threw(s1) THEN s1 ELSE pushUpdate(s1)

\* An enlistServer that enlists the new server before it takes the
\* replaced one down.
enlistServer_EnlistFirst(s, replacesId, serviceMask, readSpeed, serviceLocator) ==
    LET s1 == EnlistServer_execute(s, serviceMask, readSpeed, serviceLocator)
        s2 == IF iget(s1.serverList, replacesId)
              THEN ServerDown_execute(s1, replacesId) ELSE s1
    IN IF Threw(s2) THEN s2
       ELSE pushUpdate([s2 EXCEPT !.ret = s1.ret])

\* CoordinatorServerList::enlistServer
enlistServer(s, replacesId, serviceMask, readSpeed, serviceLocator) ==
    LET s1 == IF iget(s.serverList, replacesId)
              THEN serverDown(s, replacesId) ELSE s
        s2 == EnlistServer_execute(s1, serviceMask, readSpeed, serviceLocator)
    IN IF Threw(s1) THEN s1
       ELSE IF Threw(s2) THEN s2
       ELSE pushUpdate(s2)

\* CoordinatorServerList::removeAfterRecovery
removeAfterRecovery(s, serverId) ==
    LET s1 == remove(s, serverId)
    IN IF Threw(s1) THEN s1 ELSE pushUpdate(s1)

\* CoordinatorServerList::setMasterRecoveryInfo
setMasterRecoveryInfo(s, serverId, recoveryInfo) ==
    IF ~iget(s.serverList, serverId) THEN Throw(s)
    ELSE SetMasterRecoveryInfo_execute(
             [s EXCEPT !.serverList[serverId.index].entry[1].masterRecoveryInfo =
                           recoveryInfo],
             serverId, recoveryInfo)

\* enlistServer when the appendProtoBuf of EnlistServer::execute throws:
\* the exception leaves the method, what ran before the append stays and
\* what comes after it (complete() and pushUpdate) does not run. The
\* arguments that only go into the record play no part.
enlistServer_appendThrows(s, replacesId) ==
    LET s1 == IF iget(s.serverList, replacesId)
              THEN serverDown(s, replacesId) ELSE s
    IN IF Threw(s1) THEN s1
       ELSE [generateUniqueId(s1) EXCEPT
                !.exc = "LogCabinException", !.ret = InvalidServerId]

\* setMasterRecoveryInfo when the appendProtoBuf of
\* SetMasterRecoveryInfo::execute throws.
setMasterRecoveryInfo_appendThrows(s, serverId, recoveryInfo) ==
    IF ~iget(s.serverList, serverId) THEN Throw(s)
    ELSE [s EXCEPT
            !.serverList[serverId.index].entry[1].masterRecoveryInfo =
                recoveryInfo,
            !.exc = "LogCabinException"]

\* CoordinatorServerList::recoverEnlistedServer
recoverEnlistedServer(s, state, entryId) ==
    pushUpdate(add(s, state.server_id, state.service_locator,
                   state.service_mask, state.read_speed))

\* CoordinatorServerList::recoverEnlistServer
recoverEnlistServer(s, state, entryId) ==
    pushUpdate(EnlistServer_complete(s, state.server_id, state.service_mask,
                                     state.read_speed, state.service_locator,
                                     entryId))

\* CoordinatorServerList::recoverMasterRecoveryInfo
recoverMasterRecoveryInfo(s, serverUpdate, entryId) ==
    SetMasterRecoveryInfo_complete(s, serverUpdate.server_id,
                                   serverUpdate.master_recovery_info, entryId)

\* CoordinatorServerList::recoverServerDown
recoverServerDown(s, state, entryId) ==
    ServerDown_complete(s, state.server_id, entryId)

\* ------------------------------------------------------------- updater
\* serialize(lock, protoBuf, services): the entries, in index order from
\* index i, that offer MASTER or BACKUP among `services'.
RECURSIVE serializeEntries(_, _, _)
serializeEntries(sl, i, services) ==
    IF i >= Size(sl) THEN <<>>
    ELSE (IF Occupied(sl, i)
             /\ \/ /\ MASTER_SERVICE \in EntryAt(sl, i).services
                   /\ MASTER_SERVICE \in services
                \/ /\ BACKUP_SERVICE \in EntryAt(sl, i).services
                   /\ BACKUP_SERVICE \in services
          THEN <<serialize(EntryAt(sl, i))>> ELSE <<>>)
         \o serializeEntries(sl, i + 1, services)

\* CoordinatorServerList::serialize(lock, protoBuf, services)
serializeList(s, services) ==
    [ server |-> serializeEntries(s.serverList, 0, services),
      version_number |-> s.version,
      type |-> "FULL_LIST" ]

\* CoordinatorServerList::isClusterUpToDate
isClusterUpToDate(s) ==
    \/ Size(s.serverList) = 0
    \/ /\ s.numUpdatingServers = 0
       /\ s.minConfirmedVersion = s.version

\* A loop that keeps the batch whose version is minConfirmedVersion.
RECURSIVE popConfirmed_KeepLast(_, _)
popConfirmed_KeepLast(updates, minConfirmedVersion) ==
    IF updates # <<>> /\ Head(updates).version < minConfirmedVersion
    THEN popConfirmed_KeepLast(Tail(updates), minConfirmedVersion)
    ELSE updates

\* The while loop of pruneUpdates.
RECURSIVE popConfirmed(_, _)
popConfirmed(updates, minConfirmedVersion) ==
    IF updates # <<>> /\ Head(updates).version <= minConfirmedVersion
    THEN popConfirmed(Tail(updates), minConfirmedVersion)
    ELSE updates

\* CoordinatorServerList::pruneUpdates
pruneUpdates(s) ==
    IF s.minConfirmedVersion = UNINITIALIZED_VERSION THEN s
    ELSE IF s.minConfirmedVersion > s.version
    THEN [s EXCEPT !.minConfirmedVersion = 0]
    ELSE LET rest == popConfirmed(s.updates, s.minConfirmedVersion)
         IN [s EXCEPT !.updates = rest,
                      !.notifyListUpToDate = @ \/ rest = <<>>]

\* A work unit that getWork fills in. firstUpdate names the batch the
\* iterator points at by its version; NoBatch stands for an iterator that
\* points at no element of `updates'.
NoBatch == -1
WorkUnit(targetServer, sendFullList, firstUpdate, updateVersionTail) ==
    [ targetServer |-> targetServer, sendFullList |-> sendFullList,
      firstUpdate |-> firstUpdate, updateVersionTail |-> updateVersionTail ]

\* A branch that does not record in updateVersion what it hands out.
assignWork_KeepsUpdateVersion(s, i, ub) ==
    LET server == EntryAt(s.serverList, i)
        n == Len(s.updates)
        full == server.verifiedVersion = UNINITIALIZED_VERSION
        tail == IF full THEN s.version ELSE server.verifiedVersion + 1
        offset == IF n = 0 THEN -1 ELSE tail - s.updates[1].version
        undefined == IF full THEN n = 0 ELSE (offset < 0 \/ offset >= n)
        s1 == IF full /\ n > 0 /\ s.updates[n].full = <<>>
              THEN [s EXCEPT !.updates[n].full =
                       <<serializeList(s, {MASTER_SERVICE, BACKUP_SERVICE})>>]
              ELSE s
        first == IF undefined THEN NoBatch
                 ELSE IF full THEN s.updates[n].version
                 ELSE s.updates[offset + 1].version
    IN IF undefined /\ ub = "crash" THEN [s EXCEPT !.died = TRUE]
       ELSE [s1 EXCEPT
               !.wu = <<WorkUnit(server.serverId, full, first, tail)>>,
               !.numUpdatingServers = @ + 1,
               !.lastScan.searchIndex = i]

\* getWork, the branch taken for a server that needs an update: fills the
\* work unit (s.wu) and marks the server as updating. Reading
\* updates.back() or updates.front() of an empty deque, or an iterator
\* past its end, is undefined: with ub = "crash" the process dies there,
\* with ub = "garbage" the call goes on with an iterator at no batch.
assignWork(s, i, ub) ==
    LET server == EntryAt(s.serverList, i)
        n == Len(s.updates)
        full == server.verifiedVersion = UNINITIALIZED_VERSION
        tail == IF full THEN s.version ELSE server.verifiedVersion + 1
        offset == IF n = 0 THEN -1 ELSE tail - s.updates[1].version
        undefined == IF full THEN n = 0 ELSE (offset < 0 \/ offset >= n)
        s1 == IF full /\ n > 0 /\ s.updates[n].full = <<>>
              THEN [s EXCEPT !.updates[n].full =
                       <<serializeList(s, {MASTER_SERVICE, BACKUP_SERVICE})>>]
              ELSE s
        first == IF undefined THEN NoBatch
                 ELSE IF full THEN s.updates[n].version
                 ELSE s.updates[offset + 1].version
    IN IF undefined /\ ub = "crash" THEN [s EXCEPT !.died = TRUE]
       ELSE [s1 EXCEPT
               !.wu = <<WorkUnit(server.serverId, full, first, tail)>>,
               !.numUpdatingServers = @ + 1,
               !.lastScan.searchIndex = i,
               !.serverList[i].entry[1].updateVersion = tail]

\* The do-while loop of getWork at index i; numUpdatableServers counts the
\* updatable servers met so far.
RECURSIVE scanForWork(_, _, _, _)
scanForWork(s, i, numUpdatableServers, ub) ==
    LET sl == s.serverList
        updatable == /\ Occupied(sl, i)
                     /\ EntryAt(sl, i).status = UP
                     /\ MEMBERSHIP_SERVICE \in EntryAt(sl, i).services
        server == EntryAt(sl, i)
        num == IF updatable THEN numUpdatableServers + 1
               ELSE numUpdatableServers
        s1 == IF updatable /\ server.verifiedVersion < s.lastScan.minVersion
              THEN [s EXCEPT !.lastScan.minVersion = server.verifiedVersion]
              ELSE s
        next == (i + 1) % Size(sl)
        s2 == IF next # 0 THEN s1
              ELSE pruneUpdates(
                       [s1 EXCEPT
                          !.minConfirmedVersion =
                              IF s1.lastScan.minVersion # UNINITIALIZED_VERSION
                              THEN s1.lastScan.minVersion ELSE @,
                          !.lastScan.minVersion = UNINITIALIZED_VERSION])
    IN IF updatable /\ server.updateVersion # s.version
          /\ server.updateVersion = server.verifiedVersion
       THEN assignWork(s1, i, ub)
       ELSE IF next # s.lastScan.searchIndex
       THEN CHOOSE r \in {scanForWork(x, next, n, ub) :
                              x \in {s2}, n \in {num}} : TRUE
       ELSE LET s3 == IF num = 0
                      THEN pruneUpdates(
                               [s2 EXCEPT !.minConfirmedVersion = s2.version])
                      ELSE s2
            IN [s3 EXCEPT !.lastScan.noWorkFoundForEpoch = s3.version]

\* CoordinatorServerList::getWork: s.wu holds the work unit when the
\* result is true and is empty when it is false.
getWork(s, ub) ==
    IF \/ Size(s.serverList) = 0
       \/ /\ s.numUpdatingServers > 0
          /\ s.lastScan.noWorkFoundForEpoch = s.version
    THEN s
    ELSE scanForWork(s, s.lastScan.searchIndex, 0, ub)

\* A workSuccess that takes the server to have the current version.
workSuccess_VerifiesCurrent(s, id) ==
    LET s1 == [s EXCEPT !.numUpdatingServers = IF @ > 0 THEN @ - 1 ELSE @]
    IN IF ~iget(s1.serverList, id) THEN s1
       ELSE [s1 EXCEPT
               !.serverList[id.index].entry[1].verifiedVersion = s1.version]

\* CoordinatorServerList::workSuccess
workSuccess(s, id) ==
    LET s1 == [s EXCEPT !.numUpdatingServers = IF @ > 0 THEN @ - 1 ELSE @]
        server == EntryAt(s1.serverList, id.index)
        verified == IF server.verifiedVersion = server.updateVersion
                    THEN server.verifiedVersion ELSE server.updateVersion
    IN IF ~iget(s1.serverList, id) THEN s1
       ELSE [s1 EXCEPT
               !.serverList[id.index].entry[1].verifiedVersion = verified,
               !.lastScan.noWorkFoundForEpoch =
                   IF verified < s1.version THEN 0 ELSE @]

\* A workFailed that leaves updateVersion where getWork put it.
workFailed_NoRollback(s, id) ==
    [s EXCEPT !.numUpdatingServers = IF @ > 0 THEN @ - 1 ELSE @,
              !.lastScan.noWorkFoundForEpoch = 0]

\* A workFailed that does not ask for a new scan: it leaves
\* lastScan.noWorkFoundForEpoch as it is.
workFailed_KeepsEpoch(s, id) ==
    LET s1 == [s EXCEPT !.numUpdatingServers = IF @ > 0 THEN @ - 1 ELSE @]
    IN IF ~iget(s1.serverList, id) THEN s1
       ELSE [s1 EXCEPT
               !.serverList[id.index].entry[1].updateVersion =
                   EntryAt(s1.serverList, id.index).verifiedVersion]

\* CoordinatorServerList::workFailed
workFailed(s, id) ==
    LET s1 == [s EXCEPT !.numUpdatingServers = IF @ > 0 THEN @ - 1 ELSE @,
                        !.lastScan.noWorkFoundForEpoch = 0]
    IN IF ~iget(s1.serverList, id) THEN s1
       ELSE [s1 EXCEPT
               !.serverList[id.index].entry[1].updateVersion =
                   EntryAt(s1.serverList, id.index).verifiedVersion]

\* ---------------------------------------------------------------- state
VARIABLES
    \* fields of CoordinatorServerList (version is AbstractServerList's)
    serverList, numberOfMasters, numberOfBackups, version, update, updates,
    minConfirmedVersion, numUpdatingServers, nextReplicationId, lastScan,
    \* collaborators: the durable log, MasterRecoveryManager's
    \* startMasterRecovery calls, the trackers' queued events
    log, recoveries, events,
    \* locals of updateLoop: the active rpcs, the list iterator, the size
    \* of the rpc pool, and where the thread is; the stopUpdater flag
    rpcs, it, max_rpcs, updaterPc, stopUpdater,
    \* a thread in sync()
    syncer,
    \* the coordinator process: serving, recovering (replaying the log
    \* records in replay), crashed, or failed (recovery threw)
    phase, replay,
    \* bookkeeping of the model: every batch pushUpdate published in this
    \* lifetime, the ids enlistServer returned, the last call, counters
    published, issued, lastCall, calls, restarts,
    \* fields of a master's BackupSelector: the host list fetched from the
    \* coordinator, the order of its indexes, the number of used hosts
    \* (hostsAt names the storage that holds the entries of hosts)
    hosts, hostsAt, hostsOrder, numUsedHosts,
    \* a select() call in progress: where it is, its arguments, and for
    \* the properties the hosts it sampled for the primary and the host
    \* list at the time of the call
    sel,
    \* bookkeeping of the model: the hosts getRandomHost returned since the
    \* host list was fetched, and the number of fetches
    sampled, refreshes

cslVars == <<serverList, numberOfMasters, numberOfBackups, version, update,
             updates, minConfirmedVersion, numUpdatingServers,
             nextReplicationId, lastScan, log, recoveries, events, published>>
updaterVars == <<rpcs, it, max_rpcs, updaterPc, stopUpdater>>
bsVars == <<hosts, hostsAt, hostsOrder, numUsedHosts, sel, sampled,
            refreshes>>
vars == <<cslVars, updaterVars, syncer, phase, replay, issued, lastCall,
          calls, restarts, bsVars>>

\* The state the operators work on: the variables, and the transient
\* results of one call (exception, return value, work unit, notifications
\* of the two condition variables, death of the process).
St ==
    [ serverList |-> serverList, numberOfMasters |-> numberOfMasters,
      numberOfBackups |-> numberOfBackups, version |-> version,
      update |-> update, updates |-> updates,
      minConfirmedVersion |-> minConfirmedVersion,
      numUpdatingServers |-> numUpdatingServers,
      nextReplicationId |-> nextReplicationId, lastScan |-> lastScan,
      log |-> log, recoveries |-> recoveries, events |-> events,
      published |-> published,
      exc |-> "none", ret |-> InvalidServerId, wu |-> <<>>,
      notifyUpdater |-> FALSE, notifyListUpToDate |-> FALSE, died |-> FALSE ]

\* CoordinatorServerList::CoordinatorServerList over the durable log l.
\* ScanMetadata's constructor is not part of the sources at hand: its
\* minVersion starts either at 0 or at UNINITIALIZED_VERSION (minV).
Fresh(l, minV) ==
    [ serverList |-> <<>>, numberOfMasters |-> 0, numberOfBackups |-> 0,
      version |-> 0, update |-> <<>>, updates |-> <<>>,
      minConfirmedVersion |-> 0, numUpdatingServers |-> 0,
      nextReplicationId |-> 1,
      lastScan |-> [noWorkFoundForEpoch |-> 0, searchIndex |-> 0,
                    minVersion |-> minV],
      log |-> l, recoveries |-> <<>>, events |-> <<>>, published |-> <<>>,
      exc |-> "none", ret |-> InvalidServerId, wu |-> <<>>,
      notifyUpdater |-> FALSE, notifyListUpToDate |-> FALSE, died |-> FALSE ]

Commit(r) ==
    /\ serverList' = r.serverList
    /\ numberOfMasters' = r.numberOfMasters
    /\ numberOfBackups' = r.numberOfBackups
    /\ version' = r.version
    /\ update' = r.update
    /\ updates' = r.updates
    /\ minConfirmedVersion' = r.minConfirmedVersion
    /\ numUpdatingServers' = r.numUpdatingServers
    /\ nextReplicationId' = r.nextReplicationId
    /\ lastScan' = r.lastScan
    /\ log' = r.log
    /\ recoveries' = r.recoveries
    /\ events' = r.events
    /\ published' = r.published

\* hasUpdatesOrStop.notify_one() wakes the updater if it waits in
\* waitForWork; listUpToDate.notify_all() wakes a thread waiting in sync().
WakeUpdater(r, pc) == IF r.notifyUpdater /\ pc = "waiting" THEN "woken" ELSE pc
WakeSyncer(r) ==
    syncer' = IF r.notifyListUpToDate /\ syncer = "waiting"
              THEN "notified" ELSE syncer

\* The last call: its name, its ServerId argument, the id it returned and
\* the exception it threw; for serialize, the services asked for and the
\* ProtoBuf::ServerList filled in.
Call(op, serverId, r) ==
    [op |-> op, serverId |-> serverId, ret |-> r.ret, exc |-> r.exc,
     services |-> {}, protoBuf |-> <<>>]

\* BackupSelector::BackupSelector; no select() call has been made.
BackupSelectorInit ==
    /\ hosts = <<>> /\ hostsAt = 0 /\ hostsOrder = <<>>
    /\ numUsedHosts = 0
    /\ sel = [pc |-> "idle", numBackups |-> 0, backups |-> <<>>,
              samples |-> <<>>, before |-> <<>>]
    /\ sampled = <<>> /\ refreshes = 0

CoordinatorInit(minVersions) ==
    /\ \E minV \in minVersions :
           LET r == Fresh(<<>>, minV)
           IN /\ serverList = r.serverList
              /\ numberOfMasters = r.numberOfMasters
              /\ numberOfBackups = r.numberOfBackups
              /\ version = r.version
              /\ update = r.update
              /\ updates = r.updates
              /\ minConfirmedVersion = r.minConfirmedVersion
              /\ numUpdatingServers = r.numUpdatingServers
              /\ nextReplicationId = r.nextReplicationId
              /\ lastScan = r.lastScan
              /\ log = r.log
              /\ recoveries = r.recoveries
              /\ events = r.events
              /\ published = r.published
    /\ rpcs = <<>> /\ it = 1 /\ max_rpcs = max_rpcs_step
    /\ updaterPc = "loop" /\ stopUpdater = FALSE
    /\ syncer = "idle"
    /\ phase = "serving" /\ replay = <<>>
    /\ issued = <<>> /\ calls = 0 /\ restarts = 0
    /\ lastCall = [op |-> "none", serverId |-> InvalidServerId,
                   ret |-> InvalidServerId, exc |-> "none",
                   services |-> {}, protoBuf |-> <<>>]

InitWith(minVersions) ==
    CoordinatorInit(minVersions) /\ BackupSelectorInit

\* Both initial values of lastScan.minVersion.
Init == InitWith({0, UNINITIALIZED_VERSION})
\* The runs without the updater never read lastScan: one initial value.
InitNoUpdater == InitWith({0})

\* -------------------------------------------------------------- inputs
\* Server ids handed to the public methods: every id enlistServer has
\* returned (in the list, or stale by now) and the invalid id.
IssuedIds == {issued[k].id : k \in 1..Len(issued)}
ServerIdInputs == IssuedIds \cup {InvalidServerId}
\* The ids of the servers in the list, and the invalid id.
ListIds ==
    {EntryAt(serverList, i).serverId :
        i \in {j \in DOMAIN serverList : Occupied(serverList, j)}}
    \cup {InvalidServerId}

Serving == phase = "serving"
Running == phase \in {"serving", "recovering"}

\* ------------------------------------------------------------ mutators
EnlistServerCall(replacesId, serviceMask, readSpeed, serviceLocator) ==
    /\ Serving
    /\ LET r == enlistServer(St, replacesId, serviceMask, readSpeed,
                             serviceLocator)
       IN /\ Commit(r)
          /\ updaterPc' = WakeUpdater(r, updaterPc)
          /\ WakeSyncer(r)
          /\ issued' = IF Threw(r) THEN issued
                       ELSE Append(issued, [id |-> r.ret, life |-> restarts])
          /\ lastCall' = Call("enlistServer", replacesId, r)
    /\ calls' = calls + 1
    /\ UNCHANGED <<rpcs, it, max_rpcs, stopUpdater, phase, replay, restarts,
                   bsVars>>

Mutator(op, serverId, r) ==
    /\ Commit(r)
    /\ updaterPc' = WakeUpdater(r, updaterPc)
    /\ WakeSyncer(r)
    /\ lastCall' = Call(op, serverId, r)
    /\ calls' = calls + 1
    /\ UNCHANGED <<rpcs, it, max_rpcs, stopUpdater, phase, replay, restarts,
                   issued, bsVars>>

ServerDownCall(serverId) ==
    /\ Serving
    /\ Mutator("serverDown", serverId, serverDown(St, serverId))

RemoveAfterRecoveryCall(serverId) ==
    /\ Serving
    /\ Mutator("removeAfterRecovery", serverId,
               removeAfterRecovery(St, serverId))

SetMasterRecoveryInfoCall(serverId, recoveryInfo) ==
    /\ Serving
    /\ Mutator("setMasterRecoveryInfo", serverId,
               setMasterRecoveryInfo(St, serverId, recoveryInfo))

\* enlistServer and setMasterRecoveryInfo calls in which an append to the
\* durable log fails.
EnlistServerAppendFails(replacesId) ==
    /\ Serving
    /\ \E r \in {enlistServer_appendThrows(St, replacesId)} :
          Mutator("enlistServer", replacesId, r)

SetMasterRecoveryInfoAppendFails(serverId, recoveryInfo) ==
    /\ Serving /\ iget(serverList, serverId)
    /\ \E r \in {setMasterRecoveryInfo_appendThrows(St, serverId,
                                                     recoveryInfo)} :
          Mutator("setMasterRecoveryInfo", serverId, r)

\* CoordinatorServerList::serialize(protoBuf, services): takes the lock and
\* fills protoBuf; the list is left as it is.
SerializeCall(services) ==
    /\ Serving
    /\ lastCall' = [Call("serialize", InvalidServerId, St) EXCEPT
                       !.services = services,
                       !.protoBuf = <<serializeList(St, services)>>]
    /\ UNCHANGED <<cslVars, updaterVars, syncer, phase, replay, issued,
                   calls, restarts, bsVars>>

\* ------------------------------------------------------ updater thread
\* updateLoop, phase 1: the rpcs from the iterator up to the k-th are not
\* ready, the k-th has finished; wait() returned (ok) or threw
\* ServerNotUpException. The Tub is destroyed and moved to the back.
FinishRpc(k, ok) ==
    /\ Running /\ updaterPc = "loop"
    /\ k \in it..Len(rpcs)
    /\ \E r \in {IF ok THEN workSuccess(St, rpcs[k].targetServer)
                 ELSE workFailed(St, rpcs[k].targetServer)} :
          Commit(r) /\ WakeSyncer(r)
    /\ rpcs' = SubSeq(rpcs, 1, k - 1) \o SubSeq(rpcs, k + 1, Len(rpcs))
    /\ it' = k
    /\ updaterPc' = IF stopUpdater THEN "stopping" ELSE updaterPc
    /\ UNCHANGED <<max_rpcs, stopUpdater, phase, replay, issued, lastCall,
                   calls, restarts, bsVars>>

UpdaterRpcSuccess == \E k \in 1..Len(rpcs) : FinishRpc(k, TRUE)
UpdaterRpcFailed == \E k \in 1..Len(rpcs) : FinishRpc(k, FALSE)

\* updateLoop, phases 2 and 3 (and phase 0 of the next iteration): the
\* remaining active rpcs are not ready; if a Tub is free, getWork() is
\* called and an rpc is started for the work unit it returns; the pool
\* grows when the iterator is at its end, the thread goes to
\* waitForWork() when the iterator is at its beginning.
UpdaterGetWork ==
    /\ Running /\ updaterPc = "loop"
    /\ \E ub \in {"crash", "garbage"} :
       \E r \in {IF Len(rpcs) < max_rpcs THEN getWork(St, ub) ELSE St} :
         LET started == rpcs \o r.wu
         IN /\ Commit(r) /\ WakeSyncer(r)
            /\ rpcs' = started
            /\ max_rpcs' = IF Len(started) = max_rpcs
                           THEN max_rpcs + max_rpcs_step ELSE max_rpcs
            /\ updaterPc' = IF stopUpdater THEN "stopping"
                            ELSE IF Len(started) = 0 THEN "wait" ELSE "loop"
            /\ phase' = IF r.died THEN "crashed" ELSE phase
    /\ it' = 1
    /\ UNCHANGED <<stopUpdater, replay, issued, lastCall, calls, restarts,
                   bsVars>>

\* CoordinatorServerList::waitForWork: entered, or woken on
\* hasUpdatesOrStop, the thread tests its loop condition under the lock.
UpdaterWaitForWork ==
    /\ Running /\ updaterPc \in {"wait", "woken"}
    /\ IF minConfirmedVersion = version /\ ~stopUpdater
       THEN /\ updaterPc' = "waiting"
            /\ syncer' = IF syncer = "waiting" THEN "notified" ELSE syncer
       ELSE /\ updaterPc' = IF stopUpdater THEN "stopping" ELSE "loop"
            /\ UNCHANGED syncer
    /\ UNCHANGED <<cslVars, rpcs, it, max_rpcs, stopUpdater, phase, replay,
                   issued, lastCall, calls, restarts, bsVars>>

\* CoordinatorServerList::haltUpdater, up to the join: sets stopUpdater
\* under the lock and signals hasUpdatesOrStop.
HaltUpdaterCall ==
    /\ Running /\ ~stopUpdater
    /\ stopUpdater' = TRUE
    /\ updaterPc' = IF updaterPc = "waiting" THEN "woken" ELSE updaterPc
    /\ UNCHANGED <<cslVars, rpcs, it, max_rpcs, syncer, phase, replay,
                   issued, lastCall, calls, restarts, bsVars>>

\* updateLoop reads stopUpdater in one of its loop conditions and leaves
\* the while loop. (A thread that had read the flag before it was set goes
\* on with the rpc or the getWork call it was about to handle, and leaves
\* the loop after that.)
UpdaterSeesStop ==
    /\ Running /\ updaterPc = "loop" /\ stopUpdater
    /\ updaterPc' = "stopping"
    /\ UNCHANGED <<cslVars, rpcs, it, max_rpcs, stopUpdater, syncer, phase,
                   replay, issued, lastCall, calls, restarts, bsVars>>

\* An updater that ends with its rpcs cancelled and destroyed, but
\* without a workFailed call for them.
UpdaterCancel_NoWorkFailed ==
    /\ Running /\ updaterPc = "stopping"
    /\ updaterPc' = "stopped" /\ rpcs' = <<>>
    /\ UNCHANGED <<cslVars, syncer, it, max_rpcs, stopUpdater, phase, replay,
                   issued, lastCall, calls, restarts, bsVars>>

\* updateLoop after the while loop: one iteration of the loop that calls
\* workFailed for an rpc still active, cancels and destroys it; with no
\* rpc left the thread ends and haltUpdater's join returns.
UpdaterCancel ==
    /\ Running /\ updaterPc = "stopping"
    /\ IF rpcs = <<>>
       THEN /\ updaterPc' = "stopped"
            /\ UNCHANGED <<cslVars, rpcs, syncer>>
       ELSE \E k \in 1..Len(rpcs) :
            \E r \in {workFailed(St, rpcs[k].targetServer)} :
               /\ Commit(r) /\ WakeSyncer(r)
               /\ rpcs' = SubSeq(rpcs, 1, k - 1)
                             \o SubSeq(rpcs, k + 1, Len(rpcs))
               /\ UNCHANGED updaterPc
    /\ UNCHANGED <<it, max_rpcs, stopUpdater, phase, replay, issued,
                   lastCall, calls, restarts, bsVars>>

\* ---------------------------------------------------------------- sync()
\* CoordinatorServerList::sync: startUpdater() signals hasUpdatesOrStop,
\* then the caller waits on listUpToDate until isClusterUpToDate().
SyncCall ==
    /\ Running /\ syncer = "idle"
    /\ updaterPc' = IF updaterPc = "waiting" THEN "woken" ELSE updaterPc
    /\ syncer' = IF isClusterUpToDate(St) THEN "returned" ELSE "waiting"
    /\ UNCHANGED <<cslVars, rpcs, it, max_rpcs, stopUpdater, phase, replay,
                   issued, lastCall, calls, restarts, bsVars>>

SyncWake ==
    /\ Running /\ syncer = "notified"
    /\ syncer' = IF isClusterUpToDate(St) THEN "returned" ELSE "waiting"
    /\ UNCHANGED <<cslVars, updaterVars, phase, replay, issued, lastCall,
                   calls, restarts, bsVars>>

\* ------------------------------------------- coordinator crash, recovery
\* The entry ids of the valid records of log l, in append order.
RECURSIVE validIds(_, _)
validIds(l, i) ==
    IF i > Len(l) THEN <<>>
    ELSE (IF l[i].valid THEN <<i>> ELSE <<>>) \o validIds(l, i + 1)

\* The coordinator process dies with durable log l and a new coordinator
\* starts: a new CoordinatorServerList, whose constructor starts a new
\* updater, and the valid records of the log waiting to be replayed. The
\* runs with restarts have no updater steps, so nothing reads lastScan.
Restart(l) ==
    /\ restarts < MaxRestarts
    /\ Commit(Fresh(l, 0))
    /\ rpcs' = <<>> /\ it' = 1 /\ max_rpcs' = max_rpcs_step
    /\ updaterPc' = "loop" /\ stopUpdater' = FALSE
    /\ syncer' = "idle"
    /\ replay' = validIds(l, 1)
    /\ phase' = IF validIds(l, 1) = <<>> THEN "serving" ELSE "recovering"
    /\ restarts' = restarts + 1
    /\ lastCall' = [op |-> "restart", serverId |-> InvalidServerId,
                    ret |-> InvalidServerId, exc |-> "none",
                    services |-> {}, protoBuf |-> <<>>]
    /\ UNCHANGED <<issued, calls, bsVars>>

\* The coordinator dies between two operations.
CoordinatorCrash ==
    /\ phase \in {"serving", "crashed"}
    /\ Restart(log)

\* The coordinator dies in EnlistServer::execute, after the ServerEnlisting
\* record was appended and before complete() ran.
CrashInEnlistServer(serviceMask, readSpeed, serviceLocator) ==
    /\ Serving
    /\ Restart(appendProtoBuf(log,
           LogRecord("ServerEnlisting", generateUniqueId(St).ret,
                     serviceMask, readSpeed, serviceLocator, 0), {}))

\* The coordinator dies in ServerDown::execute, after the ServerDown record
\* was appended and before complete() ran.
CrashInServerDown(serverId) ==
    /\ Serving /\ iget(serverList, serverId)
    /\ Restart(appendProtoBuf(log,
           LogRecord("ServerDown", serverId, {}, 0, "", 0), {}))

\* Coordinator recovery hands one log record to the recover method of its
\* entry type.
recoverEntry(s, rec, entryId) ==
    CASE rec.entry_type = "ServerEnlisted" ->
             recoverEnlistedServer(s, rec, entryId)
      [] rec.entry_type = "ServerEnlisting" ->
             recoverEnlistServer(s, rec, entryId)
      [] rec.entry_type = "ServerDown" ->
             recoverServerDown(s, rec, entryId)
      [] rec.entry_type = "ServerUpdate" ->
             recoverMasterRecoveryInfo(s, rec, entryId)

RecoverOp(rec) ==
    CASE rec.entry_type = "ServerEnlisted" -> "recoverEnlistedServer"
      [] rec.entry_type = "ServerEnlisting" -> "recoverEnlistServer"
      [] rec.entry_type = "ServerDown" -> "recoverServerDown"
      [] rec.entry_type = "ServerUpdate" -> "recoverMasterRecoveryInfo"

\* The next record of the replay is recovered; an exception ends recovery.
RecoverStep ==
    /\ phase = "recovering"
    /\ LET entryId == Head(replay)
           rec == log[entryId]
           r == recoverEntry(St, rec, entryId)
       IN /\ Commit(r)
          /\ updaterPc' = WakeUpdater(r, updaterPc)
          /\ WakeSyncer(r)
          /\ lastCall' = Call(RecoverOp(rec), rec.server_id, r)
          /\ replay' = IF Threw(r) THEN replay ELSE Tail(replay)
          /\ phase' = IF Threw(r) THEN "failed"
                      ELSE IF Tail(replay) = <<>> THEN "serving"
                      ELSE "recovering"
    /\ UNCHANGED <<rpcs, it, max_rpcs, stopUpdater, issued, calls, restarts,
                   bsVars>>

\* ======================================================= BackupSelector
\* An entry of the host list: the backup's server id and its user_data.
\* AbuserData overlays user_data with two 32-bit fields, the disk
\* bandwidth and the number of primary segments this master has stored on
\* the backup; user_data is the record of the two here.
Host(server_id, bandwidth, numSegments) ==
    [server_id |-> server_id,
     user_data |-> [bandwidth |-> bandwidth, numSegments |-> numSegments]]

\* AbuserData::getMs. The code multiplies (numSegments + 1) * 1000 *
\* SEGMENT_SIZE in 64 bits and then divides by 1024 twice; SEGMENT_SIZE is
\* a multiple of 1024 * 1024, so dividing first gives the same number.
getMs(user_data) ==
    LET bandwidth == IF user_data.bandwidth # 0
                     THEN user_data.bandwidth ELSE 100
    IN IF bandwidth = 1 THEN 1
       ELSE ((user_data.numSegments + 1)
               * (((1000 * (SEGMENT_SIZE \div 1024)) \div 1024)))
            \div bandwidth

\* The host lists the coordinator hands out (CoordinatorClient::
\* getBackupList), and the values generateRandom() returns.
BackupLists ==
    { <<>>,
      <<Host(1, 100, 0)>>,
      <<Host(1, 100, 0), Host(2, 0, 0)>>,
      <<Host(3, 200, 0), Host(1, 100, 0)>>,
      <<Host(1, 100, 0), Host(2, 0, 0), Host(3, 1, 0)>>,
      <<Host(2, 0, 0), Host(3, 200, 0), Host(1, 100, 0)>> }
Randoms == 0..2

\* A Backup*: the storage it points into and the index of the entry.
BackupPtr(at, index) == [at |-> at, index |-> index]
NoHost == BackupPtr(-1, -1)
\* The pointer points at an entry of the current host list of b.
PointsIntoList(b, ptr) == ptr.at = b.hostsAt /\ ptr.index < Len(b.hosts)

\* The last n elements of a sequence.
LastN(seq, n) ==
    IF Len(seq) <= n THEN seq ELSE SubSeq(seq, Len(seq) - n + 1, Len(seq))

\* A getRandomHost that draws among all the hosts, used or not.
getRandomHost_AnyHost(b, rnd) ==
    LET size == Len(b.hostsOrder)
        i == IF b.numUsedHosts >= size THEN 0 ELSE b.numUsedHosts
        j == rnd % size
        order == [b.hostsOrder EXCEPT ![i + 1] = b.hostsOrder[j + 1],
                                      ![j + 1] = b.hostsOrder[i + 1]]
    IN [b EXCEPT !.numUsedHosts = i + 1,
                 !.hostsOrder = order,
                 !.ret = BackupPtr(b.hostsAt, order[i + 1]),
                 !.sampled = LastN(Append(@, order[i + 1]), 2 * size)]

\* BackupSelector::getRandomHost; rnd is the value of generateRandom().
\* The vector hostsOrder is a sequence here: hostsOrder[i] of the code is
\* hostsOrder[i + 1].
getRandomHost(b, rnd) ==
    LET size == Len(b.hostsOrder)
        i == IF b.numUsedHosts >= size THEN 0 ELSE b.numUsedHosts
        j == i + (rnd % (size - i))
        order == [b.hostsOrder EXCEPT ![i + 1] = b.hostsOrder[j + 1],
                                      ![j + 1] = b.hostsOrder[i + 1]]
    IN [b EXCEPT !.numUsedHosts = i + 1,
                 !.hostsOrder = order,
                 !.ret = BackupPtr(b.hostsAt, order[i + 1]),
                 !.sampled = LastN(Append(@, order[i + 1]), 2 * size)]

\* BackupSelector::conflict and conflictWithAny
conflict(a, b) == a = b
conflictWithAny(a, numBackups, backups) ==
    \E i \in 1..numBackups : conflict(a, backups[i])

\* BackupSelector::updateHostListFromCoordinator: getBackupList fills
\* hosts with `list'. Whether the new entries live where the old ones did
\* is up to the ProtoBuf library: if not (reuse is false), every Backup*
\* handed out before dangles; if so, it points at the entry that now has
\* its index, if there is one.
updateHostListFromCoordinator(b, list, reuse) ==
    [b EXCEPT !.hosts = list,
              !.hostsAt = IF reuse THEN @ ELSE @ + 1,
              !.hostsOrder = [k \in 1..Len(list) |-> k - 1],
              !.numUsedHosts = 0,
              !.sampled = <<>>]

\* A loop over the candidates in which a candidate that is as fast as the
\* primary replaces it.
RECURSIVE samplePrimary_LaterOnTie(_, _, _)
samplePrimary_LaterOnTie(b, rnds, k) ==
    IF k > 5 THEN b
    ELSE LET primary == b.ret
             b1 == getRandomHost(b, rnds[k])
             b2 == [b1 EXCEPT !.samples = Append(@, b1.ret.index)]
         IN samplePrimary_LaterOnTie(
                IF getMs(b.hosts[primary.index + 1].user_data)
                     >= getMs(b.hosts[b1.ret.index + 1].user_data)
                THEN b2 ELSE [b2 EXCEPT !.ret = primary],
                rnds, k + 1)

\* select: the loop that draws the other 4 candidates for the primary,
\* from the k-th on; b.ret is the primary so far, b.samples the hosts
\* drawn so far.
RECURSIVE samplePrimary(_, _, _)
samplePrimary(b, rnds, k) ==
    IF k > 5 THEN b
    ELSE LET primary == b.ret
             b1 == getRandomHost(b, rnds[k])
             b2 == [b1 EXCEPT !.samples = Append(@, b1.ret.index)]
         IN samplePrimary(
                IF getMs(b.hosts[primary.index + 1].user_data)
                     > getMs(b.hosts[b1.ret.index + 1].user_data)
                THEN b2 ELSE [b2 EXCEPT !.ret = primary],
                rnds, k + 1)

\* select, from the choice of the primary to the update of its user_data;
\* b.ret is the primary.
selectPrimary(b, rnds) ==
    LET b0 == getRandomHost(b, rnds[1])
        b1 == samplePrimary([b0 EXCEPT !.samples = <<b0.ret.index>>],
                            rnds, 2)
        at == b1.ret.index + 1
    IN [b1 EXCEPT !.hosts[at].user_data.numSegments = @ + 1]

\* The for loop of selectAdditional from its i-th iteration: b.ret is the
\* host it returns, or NoHost if the loop ends without one.
RECURSIVE sampleAdditional(_, _, _, _, _)
sampleAdditional(b, numBackups, backups, rnds, i) ==
    IF i >= Len(b.hosts) * 2 THEN [b EXCEPT !.ret = NoHost]
    ELSE LET b1 == getRandomHost(b, rnds[i + 1])
         IN IF ~conflictWithAny(b1.ret, numBackups, backups) THEN b1
            ELSE sampleAdditional(b1, numBackups, backups, rnds, i + 1)

\* The selector's fields, and the result of a call.
Bs ==
    [ hosts |-> hosts, hostsAt |-> hostsAt, hostsOrder |-> hostsOrder,
      numUsedHosts |-> numUsedHosts, sampled |-> sampled, ret |-> NoHost,
      samples |-> <<>> ]

BsCommit(b) ==
    /\ hosts' = b.hosts
    /\ hostsAt' = b.hostsAt
    /\ hostsOrder' = b.hostsOrder
    /\ numUsedHosts' = b.numUsedHosts
    /\ sampled' = b.sampled

coordinatorVars ==
    <<cslVars, updaterVars, syncer, phase, replay, issued, lastCall, calls,
      restarts>>

\* One getRandomHost() call.
GetRandomHostCall ==
    /\ Len(hosts) > 0
    /\ \E rnd \in Randoms : BsCommit(getRandomHost(Bs, rnd))
    /\ UNCHANGED <<coordinatorVars, sel, refreshes>>

\* select(numBackups, backups) is called: it returns at once if
\* numBackups is 0.
SelectCall(numBackups) ==
    /\ sel.pc \in {"idle", "returned"}
    /\ calls < MaxSelects
    /\ sel' = [pc |-> IF numBackups = 0 THEN "returned" ELSE "start",
               numBackups |-> numBackups, backups |-> <<>>,
               samples |-> <<>>, before |-> hosts]
    /\ calls' = calls + 1
    /\ UNCHANGED <<cslVars, updaterVars, syncer, phase, replay, issued,
                   lastCall, restarts, hosts, hostsAt, hostsOrder,
                   numUsedHosts, sampled, refreshes>>

\* select, one iteration of `while (hosts.server_size() == 0)'.
SelectFetch(list, reuse) ==
    /\ sel.pc = "start" /\ Len(hosts) = 0
    /\ refreshes < MaxRefreshes
    /\ BsCommit(updateHostListFromCoordinator(Bs, list, reuse))
    /\ refreshes' = refreshes + 1
    /\ UNCHANGED <<coordinatorVars, sel>>

\* select, from the choice of the primary up to the loop over the
\* secondaries.
SelectPrimary ==
    /\ sel.pc = "start" /\ Len(hosts) > 0
    /\ \E rnds \in [1..5 -> Randoms] :
       \E b \in {selectPrimary(Bs, rnds)} :
          /\ BsCommit(b)
          /\ sel' = [sel EXCEPT
                        !.backups = <<b.ret>>,
                        !.samples = b.samples,
                        !.pc = IF sel.numBackups = 1 THEN "returned"
                               ELSE "additional"]
    /\ UNCHANGED <<coordinatorVars, refreshes>>

\* selectAdditional, one pass of its for loop: a host that conflicts with
\* none of the backups chosen so far is returned and stored in backups[i],
\* or the list is found insufficient.
SelectAdditional ==
    /\ sel.pc = "additional"
    /\ \E rnds \in [1..(Len(hosts) * 2) -> Randoms] :
       \E b \in {sampleAdditional(Bs, Len(sel.backups), sel.backups,
                                   rnds, 0)} :
          /\ BsCommit(b)
          /\ sel' = IF b.ret = NoHost THEN [sel EXCEPT !.pc = "refresh"]
                    ELSE [sel EXCEPT
                            !.backups = Append(@, b.ret),
                            !.pc = IF Len(sel.backups) + 1 = sel.numBackups
                                   THEN "returned" ELSE "additional"]
    /\ UNCHANGED <<coordinatorVars, refreshes>>

\* selectAdditional, after a pass without a host: the host list is fetched
\* again.
SelectRefresh(list, reuse) ==
    /\ sel.pc = "refresh"
    /\ refreshes < MaxRefreshes
    /\ BsCommit(updateHostListFromCoordinator(Bs, list, reuse))
    /\ refreshes' = refreshes + 1
    /\ sel' = [sel EXCEPT !.pc = "additional"]
    /\ UNCHANGED coordinatorVars

\* ------------------------------------------------------- specifications
\* The public mutators, called at most `limit' times in a run, with the
\* service masks of `masks' and the server ids of `ids'.
Mutators(limit, masks, ids) ==
    /\ calls < limit
    /\ \/ \E replacesId \in ids, serviceMask \in masks,
             readSpeed \in ReadSpeeds, serviceLocator \in Locators :
             EnlistServerCall(replacesId, serviceMask, readSpeed,
                              serviceLocator)
       \/ \E serverId \in ids : ServerDownCall(serverId)
       \/ \E serverId \in ids : RemoveAfterRecoveryCall(serverId)
       \/ \E serverId \in ids, recoveryInfo \in RecoveryInfos :
             SetMasterRecoveryInfoCall(serverId, recoveryInfo)

\* Mutators alone: the membership list, the pending update, the published
\* batches and the durable log.
Next ==
    Mutators(MaxCalls, ServiceMasks, ServerIdInputs)

Spec == InitNoUpdater /\ [][Next]_vars

\* Mutators, coordinator crashes and the replay of the durable log.
RecNext ==
    \/ Mutators(MaxRecCalls, ServiceMasks, ServerIdInputs)
    \/ CoordinatorCrash
    \/ \E serviceMask \in ServiceMasks, readSpeed \in ReadSpeeds,
          serviceLocator \in Locators :
          CrashInEnlistServer(serviceMask, readSpeed, serviceLocator)
    \/ \E serverId \in ServerIdInputs : CrashInServerDown(serverId)
    \/ RecoverStep

RecSpec == InitNoUpdater /\ [][RecNext]_vars

\* Mutators interleaved with the updater thread.
UpdNext ==
    \/ Mutators(MaxUpdCalls, UpdServiceMasks, ListIds)
    \/ UpdaterRpcSuccess
    \/ UpdaterRpcFailed
    \/ UpdaterGetWork
    \/ UpdaterWaitForWork

UpdSpec == Init /\ [][UpdNext]_vars

\* Mutators interleaved with the updater thread and a haltUpdater call.
\* No rpc fails: what is rolled back in these runs is rolled back by the
\* updater on its way out.
HaltNext ==
    \/ Mutators(MaxUpdCalls, UpdServiceMasks, ListIds)
    \/ UpdaterRpcSuccess
    \/ UpdaterGetWork
    \/ UpdaterWaitForWork
    \/ HaltUpdaterCall
    \/ UpdaterSeesStop
    \/ UpdaterCancel

HaltSpec == Init /\ [][HaltNext]_vars

\* Mutators interleaved with the updater thread and a thread in sync().
\* No rpc fails; the updater's steps and the wake-up of the thread in
\* sync() are weakly fair: a thread that can run does run.
LiveNext ==
    \/ Mutators(MaxLiveCalls, LiveServiceMasks, ListIds)
    \/ UpdaterRpcSuccess
    \/ UpdaterGetWork
    \/ UpdaterWaitForWork
    \/ SyncCall
    \/ SyncWake

LiveSpec ==
    /\ Init /\ [][LiveNext]_vars
    /\ WF_vars(UpdaterRpcSuccess)
    /\ WF_vars(UpdaterGetWork)
    /\ WF_vars(UpdaterWaitForWork)
    /\ WF_vars(SyncWake)

\* Mutators interleaved with the updater thread, whose rpcs succeed or
\* fail. The updater's steps are weakly fair, and so is the completion of
\* its rpcs: an rpc in flight ends, one way or the other.
FairNext ==
    \/ Mutators(MaxFairCalls, LiveServiceMasks, ListIds)
    \/ UpdaterRpcSuccess
    \/ UpdaterRpcFailed
    \/ UpdaterGetWork
    \/ UpdaterWaitForWork

FairSpec ==
    /\ Init /\ [][FairNext]_vars
    /\ WF_vars(UpdaterRpcSuccess \/ UpdaterRpcFailed)
    /\ WF_vars(UpdaterGetWork)
    /\ WF_vars(UpdaterWaitForWork)

\* Servers enlist one at a time, BACKUP-only ones and masters, with one of
\* two read speeds; none replaces another, none goes down.
GroupNext ==
    /\ calls < MaxGroupCalls
    /\ \E serviceMask \in {{BACKUP_SERVICE},
                            {MASTER_SERVICE, MEMBERSHIP_SERVICE}},
          readSpeed \in {100, 200}, serviceLocator \in Locators :
          EnlistServerCall(InvalidServerId, serviceMask, readSpeed,
                           serviceLocator)

GroupSpec == InitNoUpdater /\ [][GroupNext]_vars

\* Mutators and serialize calls for every set of the three services.
SerNext ==
    \/ Mutators(MaxSerCalls, ServiceMasks, ServerIdInputs)
    \/ \E services \in SUBSET {MASTER_SERVICE, BACKUP_SERVICE,
                                MEMBERSHIP_SERVICE} :
          SerializeCall(services)

SerSpec == InitNoUpdater /\ [][SerNext]_vars

\* Mutators, some of whose appends to the durable log fail.
FailNext ==
    \/ Mutators(MaxFailCalls, ServiceMasks, ServerIdInputs)
    \/ /\ calls < MaxFailCalls
       /\ \E replacesId \in ServerIdInputs :
             EnlistServerAppendFails(replacesId)
    \/ /\ calls < MaxFailCalls
       /\ \E serverId \in ServerIdInputs, recoveryInfo \in RecoveryInfos :
             SetMasterRecoveryInfoAppendFails(serverId, recoveryInfo)

FailSpec == InitNoUpdater /\ [][FailNext]_vars

\* getRandomHost calls on a host list fetched from the coordinator.
HostInit ==
    /\ CoordinatorInit({0})
    /\ sel = [pc |-> "idle", numBackups |-> 0, backups |-> <<>>,
              samples |-> <<>>, before |-> <<>>]
    /\ refreshes = 1
    /\ \E list \in BackupLists \ {<<>>} :
          LET b == updateHostListFromCoordinator(
                       [hosts |-> <<>>, hostsAt |-> 0, hostsOrder |-> <<>>,
                        numUsedHosts |-> 0, sampled |-> <<>>,
                        ret |-> NoHost, samples |-> <<>>],
                       list, TRUE)
          IN /\ hosts = b.hosts /\ hostsAt = b.hostsAt
             /\ hostsOrder = b.hostsOrder
             /\ numUsedHosts = b.numUsedHosts /\ sampled = b.sampled

HostSpec == HostInit /\ [][GetRandomHostCall]_vars

\* select() calls of a master, with 0 to 3 backups asked for.
SelNext ==
    \/ \E numBackups \in 0..3 : SelectCall(numBackups)
    \/ \E list \in BackupLists, reuse \in BOOLEAN : SelectFetch(list, reuse)
    \/ SelectPrimary
    \/ SelectAdditional
    \/ \E list \in BackupLists, reuse \in BOOLEAN :
          SelectRefresh(list, reuse)

SelSpec == InitNoUpdater /\ [][SelNext]_vars

\* ======================================================== properties
\* Every row appended to the update so far in this lifetime, in published
\* order: the rows of the published batches, then the pending rows.
RECURSIVE rowsOf(_, _)
rowsOf(batches, k) ==
    IF k > Len(batches) THEN <<>>
    ELSE batches[k].incremental \o rowsOf(batches, k + 1)
AllRows == rowsOf(published, 1) \o update

\* The entries in the list.
ListEntries ==
    {EntryAt(serverList, i) :
        i \in {j \in DOMAIN serverList : Occupied(serverList, j)}}

\* The step is a call of `op' that returned without an exception.
Returned(op) ==
    /\ calls' = calls + 1
    /\ lastCall'.op = op
    /\ lastCall'.exc = "none"

\* ---------------------------------------------------------------- C1
\* A step of one lifetime raises version by some k >= 0 and appends exactly
\* k batches to the update buffer, stamped version+1 .. version+k, each
\* with a non-empty delta; the batches published before stay as they were.
\* (A restart starts a new CoordinatorServerList at version 0.)
C1_PublishStep ==
    \/ lastCall'.op = "restart" /\ restarts' = restarts + 1
    \/ LET k == version' - version
           n == Len(published)
       IN /\ k >= 0
          /\ Len(published') = n + k
          /\ SubSeq(published', 1, n) = published
          /\ \A j \in 1..k :
                /\ published'[n + j].version = version + j
                /\ Len(published'[n + j].incremental) > 0
          /\ Len(updates') >= k
          /\ \A j \in 1..k :
                updates'[Len(updates') - k + j].version = version + j
\* The batches published so far are stamped 1, 2, .., version.
C1_VersionsConsecutive ==
    /\ version = Len(published)
    /\ \A k \in 1..Len(published) : published[k].version = k
\* C1: across enlistServer, serverDown, removeAfterRecovery and recover*
\* calls version never decreases; a pushUpdate with a non-empty pending
\* delta raises version by exactly 1 and appends exactly one batch stamped
\* with the new value, a pushUpdate with an empty pending delta leaves
\* version and the update buffer unchanged; so the versions of the batches
\* ever published are consecutive integers without gaps or repeats.
C1_VersionMonotonic ==
    []C1_VersionsConsecutive /\ [][C1_PublishStep]_vars
\* A recover method has run and two batches have been published.
C1_Witness ==
    /\ lastCall.op = "recoverEnlistedServer"
    /\ Len(published) >= 2
    /\ version = 2

\* ---------------------------------------------------------------- C2
\* Every UP server that offers MEMBERSHIP has verifiedVersion = version.
AllVerified ==
    \A e \in ListEntries :
        (e.status = UP /\ MEMBERSHIP_SERVICE \in e.services)
        => e.verifiedVersion = version
InBuffer(rpc) ==
    \E k \in 1..Len(updates) :
        /\ updates[k].version = rpc.firstUpdate
        /\ rpc.sendFullList => updates[k].full # <<>>
\* C3: under any interleaving of mutators with the updater loop, no work
\* unit handed out by getWork and not yet completed by workSuccess or
\* workFailed references a batch that has been pruned from the update
\* buffer.
C3_WorkUnitsPinned ==
    \A k \in 1..Len(rpcs) : InBuffer(rpcs[k])

\* ---------------------------------------------------------------- C4
\* Positions in AllRows of the rows of server `id' with status `status'.
RowsAt(id, status) ==
    {k \in 1..Len(AllRows) :
        AllRows[k].entry.serverId = id /\ AllRows[k].entry.status = status}
AddRows == {k \in 1..Len(AllRows) : AllRows[k].by = "add"}

\* In published order, an ADD row of a server in a slot comes after the
\* DOWN row of every other server that had a row for that slot before it.
C4_DownBeforeReuse ==
    \A k \in AddRows : \A j \in 1..(k - 1) :
        LET new == AllRows[k].entry.serverId
            old == AllRows[j].entry.serverId
        IN (old.index = new.index /\ old # new)
           => \E m \in RowsAt(old, DOWN) : m < k
\* enlistServer(replacesId) with replacesId in the list: after the call a
\* CRASHED row of replacesId precedes the ADD row of the returned id.
C4_CrashedBeforeAdd ==
    (Returned("enlistServer") /\ iget(serverList, lastCall'.serverId))
    => \E c \in 1..Len(AllRows') : \E a \in 1..Len(AllRows') :
          /\ c < a
          /\ AllRows'[c].entry.serverId = lastCall'.serverId
          /\ AllRows'[c].entry.status = CRASHED
          /\ AllRows'[a].by = "add"
          /\ AllRows'[a].entry.serverId = lastCall'.ret
\* C4: in published order (batches by version, rows in append order), when
\* a slot index is re-used the DOWN row of the previous occupant comes
\* before the ADD row of the new one, and for enlistServer(replacesId) with
\* replacesId in the list the CRASHED row of replacesId comes before the
\* ADD row of the newly enlisted server.
C4_RowOrder ==
    []C4_DownBeforeReuse /\ [][C4_CrashedBeforeAdd]_vars
\* A slot has been re-used by an enlistServer that replaced a server that
\* was in the list.
C4_Witness ==
    /\ lastCall.op = "enlistServer"
    /\ lastCall.exc = "none"
    /\ lastCall.serverId.index = lastCall.ret.index
    /\ lastCall.serverId # lastCall.ret
    /\ RowsAt(lastCall.serverId, DOWN) # {}
    /\ \E k \in AddRows : AllRows[k].entry.serverId = lastCall.ret

\* ---------------------------------------------------------------- C5
\* Coordinator recovery run to its end: the records of l with the entry
\* ids of `ids' are handed, in order, to their recover methods, starting
\* from state s; an exception ends the replay.
RECURSIVE replayFrom(_, _, _)
replayFrom(s, l, ids) ==
    IF ids = <<>> \/ Threw(s) THEN s
    ELSE replayFrom(recoverEntry(s, l[Head(ids)], Head(ids)), l, Tail(ids))
Replayed(l) == replayFrom(Fresh(l, 0), l, validIds(l, 1))

\* The membership a list holds.
Membership(sl) ==
    {[serverId |-> e.serverId, services |-> e.services,
      serviceLocator |-> e.serviceLocator, status |-> e.status,
      masterRecoveryInfo |-> e.masterRecoveryInfo] :
        e \in {EntryAt(sl, i) : i \in {j \in DOMAIN sl : Occupied(sl, j)}}}

\* C5: after any sequence of enlistServer, serverDown, removeAfterRecovery
\* and setMasterRecoveryInfo calls, replaying the valid records of the
\* durable log in append order through the recover methods onto an empty
\* CoordinatorServerList yields the membership of the in-memory list: the
\* same ServerIds, each with the same services, locator, status and
\* masterRecoveryInfo.
C5_ReplayEquivalence ==
    LET r == Replayed(log)
    IN /\ ~Threw(r)
       /\ Membership(r.serverList) = Membership(serverList)

\* ---------------------------------------------------------------- C6
\* C6: whenever the lock is free, numberOfMasters is the number of entries
\* in the list that offer MASTER and are UP, and numberOfBackups the
\* number of entries that offer BACKUP and are UP.
C6_Counts ==
    /\ numberOfMasters =
         Cardinality({e \in ListEntries :
                         MASTER_SERVICE \in e.services /\ e.status = UP})
    /\ numberOfBackups =
         Cardinality({e \in ListEntries :
                         BACKUP_SERVICE \in e.services /\ e.status = UP})
\* A crashed master is in the list next to a master and a backup that are
\* up.
C6_Witness ==
    /\ numberOfMasters = 1
    /\ numberOfBackups = 1
    /\ \E e \in ListEntries :
          MASTER_SERVICE \in e.services /\ e.status = CRASHED

\* ---------------------------------------------------------------- C7
\* No entry stored in a slot has status DOWN.
C7_NoDownInSlot == \A e \in ListEntries : e.status \in {UP, CRASHED}
\* Every DOWN row and every SERVER_REMOVED event of a server comes after a
\* CRASHED row, respectively a SERVER_CRASHED event, of that server.
C7_RemovalAfterCrashed ==
    /\ \A k \in 1..Len(AllRows) :
          AllRows[k].entry.status = DOWN
          => /\ AllRows[k].by = "remove"
             /\ \E j \in RowsAt(AllRows[k].entry.serverId, CRASHED) : j < k
    /\ \A k \in 1..Len(events) :
          events[k][2] = "SERVER_REMOVED"
          => \E j \in 1..(k - 1) :
                events[j] = <<events[k][1], "SERVER_CRASHED">>
\* A CRASHED entry is still in the list and CRASHED after a step, or it is
\* no longer in the list.
C7_CrashedStays ==
    \A e \in ListEntries :
        (e.status = CRASHED /\ iget(serverList', e.serverId))
        => EntryAt(serverList', e.serverId.index).status = CRASHED
\* C7: an entry's status only moves from UP to CRASHED to removed: a
\* CRASHED entry never returns to UP, a removal always passes through
\* CRASHED, and no entry stored in a slot has status DOWN when the lock is
\* free.
C7_StatusOrder ==
    /\ [](C7_NoDownInSlot /\ C7_RemovalAfterCrashed)
    /\ [][C7_CrashedStays]_vars
\* removeAfterRecovery removed a server that was UP: its CRASHED row and
\* its DOWN row are in the same batch.
C7_Witness ==
    /\ lastCall.op = "removeAfterRecovery"
    /\ lastCall.exc = "none"
    /\ published # <<>>
    /\ LET rows == published[Len(published)].incremental
       IN /\ Len(rows) >= 2
          /\ rows[1].entry.serverId = lastCall.serverId
          /\ rows[1].by = "crashed"
          /\ rows[2].by = "remove"

\* ---------------------------------------------------------------- C8
\* C8: within one coordinator lifetime successive occupants of a slot have
\* strictly increasing generation numbers, so enlistServer never returns a
\* ServerId it returned before, and it never returns one with index 0.
C8_UniqueIds ==
    /\ \A k \in 1..Len(issued) : issued[k].id.index >= 1
    /\ \A j \in 1..Len(issued) : \A k \in (j + 1)..Len(issued) :
          (issued[j].life = issued[k].life
           /\ issued[j].id.index = issued[k].id.index)
          => issued[j].id.generation < issued[k].id.generation
\* A slot has had two occupants in one lifetime.
C8_Witness ==
    \E j \in 1..Len(issued) : \E k \in (j + 1)..Len(issued) :
        /\ issued[j].life = issued[k].life
        /\ issued[j].id.index = issued[k].id.index
        /\ issued[k].id.generation = issued[j].id.generation + 1

\* ---------------------------------------------------------------- C9
\* The rows of server `id' with status `status' in a sequence of rows.
RowsIn(rows, id, status) ==
    {k \in 1..Len(rows) :
        rows[k].entry.serverId = id /\ rows[k].entry.status = status}
\* serverDown(S) returned, S was UP: the call published one batch, with one
\* CRASHED row of S; if S does not offer MASTER, with one DOWN row of S
\* after it, and S has left the list; if S offers MASTER, with no DOWN row
\* of S, and S is in the list with status CRASHED.
C9_ServerDownStep ==
    LET S == lastCall'.serverId
        entry == EntryAt(serverList, S.index)
        rows == published'[Len(published')].incremental
    IN (Returned("serverDown") /\ iget(serverList, S) /\ entry.status = UP)
       => /\ Len(published') = Len(published) + 1
          /\ update' = <<>>
          /\ Cardinality(RowsIn(rows, S, CRASHED)) = 1
          /\ IF MASTER_SERVICE \notin entry.services
             THEN /\ Cardinality(RowsIn(rows, S, DOWN)) = 1
                  /\ \A c \in RowsIn(rows, S, CRASHED) :
                        \A d \in RowsIn(rows, S, DOWN) : c < d
                  /\ ~iget(serverList', S)
                  /\ ~Occupied(serverList', S.index)
             ELSE /\ RowsIn(rows, S, DOWN) = {}
                  /\ iget(serverList', S)
                  /\ EntryAt(serverList', S.index).status = CRASHED
\* A CRASHED server that offers MASTER leaves the list only in
\* removeAfterRecovery of that server.
C9_MasterStays ==
    \A e \in ListEntries :
        (/\ e.status = CRASHED
         /\ MASTER_SERVICE \in e.services
         /\ ~iget(serverList', e.serverId))
        => /\ Returned("removeAfterRecovery")
           /\ lastCall'.serverId = e.serverId
\* C9: serverDown(S) on an UP server S emits exactly one CRASHED row for S;
\* iff S does not offer MASTER it then emits one DOWN row for S and empties
\* S's slot in the same critical section, whereas a server that offers
\* MASTER stays in the list with status CRASHED, without a DOWN row, until
\* removeAfterRecovery(S) is called.
C9_ServerDown ==
    [][C9_ServerDownStep /\ C9_MasterStays]_vars
\* serverDown has taken down a backup, whose slot is empty, while a master
\* that was taken down before is in the list with status CRASHED.
C9_Witness ==
    /\ lastCall.op = "serverDown"
    /\ lastCall.exc = "none"
    /\ ~Occupied(serverList, lastCall.serverId.index)
    /\ RowsIn(published[Len(published)].incremental,
              lastCall.serverId, DOWN) # {}
    /\ \E e \in ListEntries :
          MASTER_SERVICE \in e.services /\ e.status = CRASHED

\* --------------------------------------------------------------- C10
\* The step is enlistServer(replacesId = S1, ..) where S1 is in the list,
\* UP, and offers MASTER and MEMBERSHIP.
C10_ReplacesUpMaster ==
    /\ Returned("enlistServer")
    /\ iget(serverList, lastCall'.serverId)
    /\ LET S1 == EntryAt(serverList, lastCall'.serverId.index)
       IN /\ S1.status = UP
          /\ {MASTER_SERVICE, MEMBERSHIP_SERVICE} \subseteq S1.services
\* C10 as stated: enlistServer(replacesId = S1, ..) with S1 UP, offering
\* MASTER and MEMBERSHIP, returns a ServerId with S1's slot index and
\* S1's generation number plus one.
C10_SameSlot ==
    [][C10_ReplacesUpMaster
       => /\ lastCall'.ret.index = lastCall'.serverId.index
          /\ lastCall'.ret.generation = lastCall'.serverId.generation + 1]_vars
\* C10: enlistServer(replacesId = S1, ..) with S1 UP, offering MASTER and
\* MEMBERSHIP, leaves S1 in its slot with status CRASHED and returns a
\* ServerId S2 of another slot: the lowest index from 1 up that held no
\* entry before the call (a new slot at the end of the list if there was
\* none), with that slot's next generation number as generation, and S2
\* is in the list and UP after the call.
C10_OtherSlot ==
    [][C10_ReplacesUpMaster
       => LET S1 == lastCall'.serverId
              S2 == lastCall'.ret
          IN /\ iget(serverList', S1)
             /\ EntryAt(serverList', S1.index).status = CRASHED
             /\ S2.index # S1.index
             /\ S2.index >= 1
             /\ ~Occupied(serverList, S2.index)
             /\ \A i \in 1..(S2.index - 1) : Occupied(serverList, i)
             /\ S2.generation =
                  IF S2.index \in DOMAIN serverList
                  THEN serverList[S2.index].nextGenerationNumber ELSE 0
             /\ iget(serverList', S2)
             /\ EntryAt(serverList', S2.index).status = UP]_vars
\* enlistServer has replaced an UP master: the master is CRASHED in its
\* slot and the new server sits in a re-used slot below it.
C10_Witness ==
    /\ lastCall.op = "enlistServer"
    /\ lastCall.exc = "none"
    /\ iget(serverList, lastCall.serverId)
    /\ LET S1 == EntryAt(serverList, lastCall.serverId.index)
       IN /\ S1.status = CRASHED
          /\ {MASTER_SERVICE, MEMBERSHIP_SERVICE} \subseteq S1.services
          /\ S1.serverInfoLogId # 0
    /\ published[Len(published)].incremental[1].by = "add"
    /\ published[Len(published) - 1].incremental[1].entry.serverId
          = lastCall.serverId
    /\ published[Len(published) - 1].incremental[1].by = "crashed"
    /\ lastCall.ret.index < lastCall.serverId.index
    /\ lastCall.ret.generation = 1

\* --------------------------------------------------------------- C11
\* The step is serverDown(S) that returned, where S was in the list.
C11_ServerDownOf(S) ==
    /\ Returned("serverDown")
    /\ lastCall'.serverId = S
    /\ iget(serverList, S)
\* C11 as stated: serverDown on a server that does not offer MASTER (a
\* BACKUP-only server, for example) never invokes
\* RecoveryManager.startMasterRecovery.
C11_NoRecoveryForNonMaster ==
    [][\A S \in ListIds :
          (C11_ServerDownOf(S)
           /\ MASTER_SERVICE \notin EntryAt(serverList, S.index).services)
          => recoveries' = recoveries]_vars
\* C11: serverDown(S) on a server S in the list invokes
\* RecoveryManager.startMasterRecovery exactly once, with a copy of S's
\* entry taken before the call changed it, whether or not S offers MASTER
\* (a BACKUP-only server included).
C11_RecoveryAlwaysStarted ==
    [][\A S \in ListIds :
          C11_ServerDownOf(S)
          => recoveries' = Append(recoveries, EntryAt(serverList, S.index))]_vars
\* serverDown has taken down a BACKUP-only server that was UP, and
\* startMasterRecovery was called with its entry.
C11_Witness ==
    /\ lastCall.op = "serverDown"
    /\ lastCall.exc = "none"
    /\ recoveries # <<>>
    /\ LET e == recoveries[Len(recoveries)]
       IN /\ e.serverId = lastCall.serverId
          /\ e.services = {BACKUP_SERVICE}
          /\ e.status = UP

\* --------------------------------------------------------------- C12
\* Every server that enlisted so far is BACKUP-only and in the list.
C12_OnlyBackups ==
    /\ Cardinality(ListEntries) = calls
    /\ \A e \in ListEntries : e.services = {BACKUP_SERVICE}
\* The entries with replication id g.
C12_Group(g) == {e \in ListEntries : e.replicationId = g}
\* After the k-th enlist: groups 1..floor(k/3) of 3 backups each, k mod 3
\* backups with replication id 0, no other replication id.
C12_GroupsOfThree ==
    C12_OnlyBackups
    => /\ \A g \in 1..(calls \div numReplicas) :
             Cardinality(C12_Group(g)) = numReplicas
       /\ Cardinality(C12_Group(0)) = calls % numReplicas
       /\ \A e \in ListEntries :
             e.replicationId \in 0..(calls \div numReplicas)
\* An enlist that does not complete a group of 3 leaves the replication id
\* of every server that was in the list as it was.
C12_IncompleteGroupStep ==
    (C12_OnlyBackups' /\ Returned("enlistServer")
     /\ calls' % numReplicas # 0)
    => \A e \in ListEntries :
          /\ iget(serverList', e.serverId)
          /\ EntryAt(serverList', e.serverId.index).replicationId
                = e.replicationId
\* C12: starting from an empty list and enlisting BACKUP-only servers one
\* at a time with no crashes, after the k-th enlist exactly floor(k/3)
\* replication groups exist, numbered 1..floor(k/3), each held by exactly 3
\* backups, and exactly k mod 3 backups have replicationId 0; an enlist
\* that does not complete a group of 3 changes no server's replicationId.
C12_ReplicationGroups ==
    []C12_GroupsOfThree /\ [][C12_IncompleteGroupStep]_vars
\* Six BACKUP-only servers have enlisted: the second group is complete.
C12_Witness ==
    /\ calls = 6
    /\ C12_OnlyBackups
    /\ Cardinality(C12_Group(1)) = 3
    /\ Cardinality(C12_Group(2)) = 3
    /\ nextReplicationId = 3

\* --------------------------------------------------------------- C13
\* The slot indexes of the entries that share a service with `services'.
C13_Matching(services) ==
    {i \in DOMAIN serverList :
        Occupied(serverList, i)
        /\ EntryAt(serverList, i).services \cap services # {}}
\* C13: serialize(out, services) emits, in ascending slot-index order,
\* exactly the occupied entries whose service mask shares at least one
\* service with the requested mask (for every service kind, MEMBERSHIP
\* included), and stamps out with the current version and type FULL_LIST.
C13_Serialize ==
    lastCall.op = "serialize"
    => LET out == lastCall.protoBuf[1]
           idx == C13_Matching(lastCall.services)
       IN /\ Len(out.server) = Cardinality(idx)
          /\ \A i \in idx :
                out.server[Cardinality({j \in idx : j < i}) + 1]
                    = serialize(EntryAt(serverList, i))
          /\ out.version_number = version
          /\ out.type = "FULL_LIST"

\* --------------------------------------------------------------- C14
\* C14: under any interleaving of mutators, rpc completions and the updater
\* loop, whenever isClusterUpToDate is true with a non-empty server list
\* (and so whenever sync() returns), every UP server that offers MEMBERSHIP
\* has verifiedVersion = version.
C14_UpToDateMeansVerified ==
    (isClusterUpToDate(St) /\ Size(serverList) # 0) => AllVerified

\* --------------------------------------------------------------- C15
\* The bookkeeping of the step is that of workSuccess for server `id'.
C15_SuccessPath(id) ==
    LET r == workSuccess(St, id)
    IN /\ serverList' = r.serverList
       /\ numUpdatingServers' = r.numUpdatingServers
       /\ lastScan' = r.lastScan
\* C15: when an update rpc completes with a ServerNotUp error, the updater
\* loop records the completion as a success (it takes the workSuccess path
\* for that target), not as a failure to be rolled back and retried.
C15_NotUpIsSuccess ==
    [][\A k \in 1..Len(rpcs) :
          FinishRpc(k, FALSE) => C15_SuccessPath(rpcs[k].targetServer)]_vars

\* --------------------------------------------------------------- C16
\* C16: recoverEnlistedServer re-adds the server to the in-memory list
\* without publishing anything: the call leaves version and the update
\* buffer unchanged.
C16_RecoverEnlistedQuiet ==
    [][(RecoverStep /\ lastCall'.op = "recoverEnlistedServer")
       => (version' = version /\ updates' = updates)]_vars

\* --------------------------------------------------------------- C17
\* The step is a call of serverDown, removeAfterRecovery or
\* setMasterRecoveryInfo with a ServerId that is not in the list.
C17_CallWithAbsentId ==
    /\ calls' = calls + 1
    /\ lastCall'.op \in {"serverDown", "removeAfterRecovery",
                         "setMasterRecoveryInfo"}
    /\ ~iget(serverList, lastCall'.serverId)
\* C17: serverDown, removeAfterRecovery and setMasterRecoveryInfo called
\* with a ServerId that is absent from the list or whose generation is
\* stale raise the NotFound error (ServerListException) and leave the
\* server list, the master and backup counters, version, the pending
\* delta, the update buffer and the durable log exactly as they were.
C17_NotFoundChangesNothing ==
    [][C17_CallWithAbsentId
       => /\ lastCall'.exc = "ServerListException"
          /\ UNCHANGED <<serverList, numberOfMasters, numberOfBackups,
                         version, update, updates, log>>]_vars

\* --------------------------------------------------------------- C18
\* C18: if the durable-log append performed by enlistServer or
\* setMasterRecoveryInfo fails, the in-memory list is as it was before the
\* call: no slot has become occupied, no nextGenerationNumber has
\* advanced, and no entry's masterRecoveryInfo has been overwritten.
C18_AppendFailureChangesNothing ==
    [][(calls' = calls + 1 /\ lastCall'.exc = "LogCabinException")
       => /\ \A i \in DOMAIN serverList' :
                Occupied(serverList', i) => Occupied(serverList, i)
          /\ \A i \in DOMAIN serverList :
                serverList'[i].nextGenerationNumber
                    = serverList[i].nextGenerationNumber
          /\ \A e \in ListEntries :
                iget(serverList', e.serverId)
                => EntryAt(serverList', e.serverId.index).masterRecoveryInfo
                      = e.masterRecoveryInfo]_vars

\* ------------------------------------------------------------------ C19
\* The hosts returned by the getRandomHost calls since the cursor
\* numUsedHosts was last reset to 0.
C19_SinceReset == LastN(sampled, numUsedHosts)

\* C19: with a fixed non-empty list of N hosts, any 2N consecutive
\* getRandomHost calls return every host at least once, whatever the
\* random choices, and no host is returned twice between two resets of
\* the cursor.
C19_RoundRobinCoverage ==
    /\ \A k \in 1..Len(sampled) : sampled[k] \in 0..(Len(hosts) - 1)
    /\ Len(sampled) = 2 * Len(hosts)
         => {sampled[k] : k \in 1..Len(sampled)} = 0..(Len(hosts) - 1)
    /\ Len(C19_SinceReset) = numUsedHosts
    /\ \A k, l \in 1..numUsedHosts :
         C19_SinceReset[k] = C19_SinceReset[l] => k = l

\* Six calls on a list of three hosts, the last of them ending a round in
\* which the random choices reordered the hosts.
C19_Witness ==
    /\ Len(hosts) = 3
    /\ Len(sampled) = 6
    /\ numUsedHosts = 3
    /\ C19_SinceReset = <<2, 0, 1>>

C21_PrimaryChosen == sel.pc = "start" /\ sel'.pc # "start"

\* The expected time in ms to read the primary segments a backup holds for
\* this master, and one more: 8 MB segments at the backup's bandwidth in
\* MB/s, 0 standing for 100 MB/s and 1 for a read time of 1 ms.
C21_ReadMs(user_data) ==
    IF user_data.bandwidth = 1 THEN 1
    ELSE ((user_data.numSegments + 1) * 8 * 1000)
         \div (IF user_data.bandwidth = 0 THEN 100 ELSE user_data.bandwidth)

\* C21: the primary select chooses is one of 5 consecutive getRandomHost
\* samples; its expected read time is at most that of each of the other 4
\* and less than that of every sample drawn before it (a tie keeps the
\* earlier sample); a bandwidth of 0 counts as 100 MB/s and a bandwidth of
\* 1 costs 1 ms whatever the number of segments.
C21_PrimaryIsFastestSample ==
    [][C21_PrimaryChosen =>
        LET samples == sel'.samples
            primary == sel'.backups[1]
            ms(index) == C21_ReadMs(hosts[index + 1].user_data)
        IN /\ Len(samples) = 5
           /\ \A k \in 1..5 : samples[k] \in 0..(Len(hosts) - 1)
           /\ LastN(samples, Len(sampled')) = LastN(sampled', 5)
           /\ primary.at = hostsAt
           /\ \E k \in 1..5 :
                /\ samples[k] = primary.index
                /\ \A l \in 1..5 : ms(primary.index) <= ms(samples[l])
                /\ \A l \in 1..(k - 1) : ms(primary.index) < ms(samples[l])
    ]_vars

\* A primary has been chosen among samples of which two different hosts
\* tie for the shortest read time, and one with a bandwidth of 1 that
\* already holds a segment has been chosen before a slower host.
C21_Witness ==
    /\ sel.pc = "returned" /\ sel.numBackups = 1
    /\ Len(sel.samples) = 5
    /\ hosts = <<Host(1, 100, 0), Host(2, 0, 0), Host(3, 1, 2)>>
    /\ sel.samples[1] = 1
    /\ \E k \in 2..5 : sel.samples[k] = 0
    /\ sel.backups[1].index = 2

\* ------------------------------------------------------------------ C22
\* C22: when a select(n, out) call with n >= 1 that found a non-empty host
\* list returns, the host list is the one of before the call but for the
\* primary's numSegments, which is one greater: the primary's bandwidth
\* and the packed load of every other host are unchanged.
C22_OnlyPrimaryCounted ==
    (sel.pc = "returned" /\ sel.numBackups >= 1 /\ sel.before # <<>>) =>
        /\ sel.backups[1].index + 1 \in DOMAIN sel.before
        /\ hosts = [sel.before EXCEPT
                       ![sel.backups[1].index + 1].user_data.numSegments
                           = @ + 1]

C24_ConfirmedBatchesPruned ==
    /\ minConfirmedVersion <= version
    /\ \A k \in 1..Len(updates) : updates[k].version > minConfirmedVersion

\* Batches have been confirmed and pruned while later ones are still in
\* the buffer.
C24_Witness ==
    /\ minConfirmedVersion > 0
    /\ minConfirmedVersion < version
    /\ updates # <<>>
    /\ Len(updates) < Len(published)

\* ------------------------------------------------------------------ C25
\* The UP servers of the list that offer MEMBERSHIP: the targets of the
\* updater.
C25_Targets ==
    {e \in ListEntries : e.status = UP /\ MEMBERSHIP_SERVICE \in e.services}

\* C25: whenever the lock is free, minConfirmedVersion is at most the
\* verifiedVersion of every UP server that offers MEMBERSHIP, so that
\* every batch a target has not acknowledged yet is in the update buffer.
C25_MinConfirmedIsLowerBound ==
    Running => \A e \in C25_Targets :
        /\ minConfirmedVersion <= e.verifiedVersion
        /\ e.verifiedVersion # UNINITIALIZED_VERSION =>
              \A v \in (e.verifiedVersion + 1)..version :
                  \E k \in 1..Len(updates) : updates[k].version = v

\* ------------------------------------------------------------------ C26
\* C26: whenever getWork returns a work unit, the batch the unit refers to
\* is in the update buffer: for a full list the buffer is not empty and
\* its last batch, the one referred to, has the current version; for an
\* incremental update to a target with verifiedVersion w the unit refers
\* to the batch of version w + 1, which is in the buffer.
C26_WorkUnitHasItsBatch ==
    [][(Running' /\ Len(rpcs') > Len(rpcs)) =>
        LET wu == rpcs'[Len(rpcs')]
            w == EntryAt(serverList', wu.targetServer.index).verifiedVersion
        IN IF wu.sendFullList
           THEN /\ updates' # <<>>
                /\ updates'[Len(updates')].version = version'
                /\ wu.firstUpdate = version'
           ELSE /\ wu.firstUpdate = w + 1
                /\ \E k \in 1..Len(updates') : updates'[k].version = w + 1
    ]_vars

\* ------------------------------------------------------------------ C27
\* C27 as stated: whenever the lock is free, every UP server of the list
\* that offers MEMBERSHIP has verifiedVersion <= updateVersion <= version,
\* from the moment it is enlisted.
C27_VersionsOrdered ==
    \A e \in C25_Targets :
        e.verifiedVersion <= e.updateVersion /\ e.updateVersion <= version

\* C27, amended: a UP server that offers MEMBERSHIP is enlisted with both
\* versions at UNINITIALIZED_VERSION, which is above every version. While
\* no update has been handed out for it both stay there; from then on
\* updateVersion <= version, and verifiedVersion is either still
\* UNINITIALIZED_VERSION (no update acknowledged yet) or at most
\* updateVersion.
C27_VersionsOrderedOnceUpdated ==
    \A e \in C25_Targets :
        \/ /\ e.updateVersion = UNINITIALIZED_VERSION
           /\ e.verifiedVersion = UNINITIALIZED_VERSION
        \/ /\ e.updateVersion <= version
           /\ \/ e.verifiedVersion = UNINITIALIZED_VERSION
              \/ e.verifiedVersion <= e.updateVersion

\* One server is being sent its first full list, another has acknowledged
\* a version and is being sent the next, a third has just enlisted.
C27_Witness ==
    /\ \E e \in C25_Targets :
          /\ e.verifiedVersion = UNINITIALIZED_VERSION
          /\ e.updateVersion <= version
    /\ \E e \in C25_Targets :
          /\ e.verifiedVersion < e.updateVersion
          /\ e.updateVersion <= version
    /\ \E e \in C25_Targets : e.updateVersion = UNINITIALIZED_VERSION

\* ------------------------------------------------------------------ C28
\* C28: a server of the list has an update rpc in flight only while its
\* updateVersion differs from its verifiedVersion, and no server has more
\* than one update rpc in flight, whatever the interleaving of getWork,
\* workSuccess, workFailed and the mutators.
C28_OneRpcPerServer ==
    Running =>
        /\ \A k \in 1..Len(rpcs) :
             iget(serverList, rpcs[k].targetServer) =>
                 EntryAt(serverList, rpcs[k].targetServer.index).updateVersion
                   # EntryAt(serverList,
                             rpcs[k].targetServer.index).verifiedVersion
        /\ \A k, l \in 1..Len(rpcs) :
             rpcs[k].targetServer = rpcs[l].targetServer => k = l

\* Two servers have an rpc in flight each, one of them for the second
\* time, while a third, up to date, has none.
C28_Witness ==
    /\ Len(rpcs) = 2
    /\ \E k \in 1..2 : ~rpcs[k].sendFullList
    /\ \E e \in C25_Targets :
          /\ e.updateVersion = e.verifiedVersion
          /\ \A k \in 1..2 : rpcs[k].targetServer # e.serverId

\* ------------------------------------------------------------------ C29
\* C29: workFailed(id) for a server of the list sets its updateVersion
\* back to its verifiedVersion, which it leaves as it is, and changes no
\* other entry; workSuccess(id) and workFailed(id) for an id that is not
\* in the list change no entry; each of these calls lowers
\* numUpdatingServers by exactly one, and not below 0.
C29_WorkDone ==
    [][\A k \in 1..Len(rpcs) :
        LET id == rpcs[k].targetServer
            rolledBack ==
                [serverList EXCEPT
                    ![id.index].entry[1].updateVersion =
                        EntryAt(serverList, id.index).verifiedVersion]
        IN /\ (FinishRpc(k, TRUE) \/ FinishRpc(k, FALSE)) =>
                /\ numUpdatingServers' = numUpdatingServers - 1
                /\ numUpdatingServers' >= 0
                /\ ~iget(serverList, id) => serverList' = serverList
           /\ (FinishRpc(k, FALSE) /\ iget(serverList, id)) =>
                serverList' = rolledBack
    ]_vars

\* The only server that ever enlisted was handed its first full list, the
\* rpc failed and the server is where it was before getWork: no rpc in
\* flight, both versions at UNINITIALIZED_VERSION.
C29_Witness ==
    /\ Len(issued) = 1 /\ rpcs = <<>> /\ numUpdatingServers = 0
    /\ \E e \in C25_Targets :
          /\ lastScan.searchIndex = e.serverId.index
          /\ e.updateVersion = UNINITIALIZED_VERSION
          /\ e.verifiedVersion = UNINITIALIZED_VERSION

\* ------------------------------------------------------------------ C30
\* C30: once haltUpdater has returned, whatever rpcs were in flight when
\* it was called, no update rpc is in flight, numUpdatingServers is 0 and
\* every entry of the list has updateVersion = verifiedVersion.
C30_HaltedUpdaterIsQuiet ==
    updaterPc = "stopped" =>
        /\ rpcs = <<>>
        /\ numUpdatingServers = 0
        /\ \A e \in ListEntries : e.updateVersion = e.verifiedVersion

\* haltUpdater has returned; the full list of the current version was
\* built for a server, yet of the two servers that ever enlisted, both in
\* the list, none has acknowledged anything: what was handed out has been
\* rolled back.
C30_Witness ==
    /\ updaterPc = "stopped"
    /\ Len(issued) = 2 /\ Cardinality(C25_Targets) = 2
    /\ updates # <<>>
    /\ updates[Len(updates)].version = version
    /\ updates[Len(updates)].full # <<>>
    /\ \A e \in C25_Targets : e.verifiedVersion = UNINITIALIZED_VERSION

\* --------------------------------------------------------------- C31
\* The server in slot i is UP, offers MEMBERSHIP, is out of date and has no
\* rpc in flight: getWork's condition for handing out an update for it.
C31_Eligible(i) ==
    /\ Occupied(serverList, i)
    /\ LET server == EntryAt(serverList, i)
       IN /\ server.status = UP
          /\ MEMBERSHIP_SERVICE \in server.services
          /\ server.updateVersion # version
          /\ server.updateVersion = server.verifiedVersion
\* C31: under a fairly scheduled updater loop, every UP server offering
\* MEMBERSHIP that is out of date and has no rpc in flight is eventually
\* selected by getWork (or leaves the list, or stops being UP), even while
\* update rpcs to another target keep failing and being retried: a
\* repeatedly failing target cannot starve the others.
C31_NoStarvation ==
    \A i \in 1..MaxFairCalls :
        (Running /\ C31_Eligible(i)) ~> (~Running \/ ~C31_Eligible(i))

\* --------------------------------------------------------------- C32
\* Among the first n records of the durable log there is one of the given
\* type for server `id' (valid or invalidated since).
C32_Logged(l, n, type, id) ==
    \E j \in 1..n :
        j <= Len(l) /\ l[j].entry_type = type /\ l[j].server_id = id
\* Every ADD row of a published batch: when the batch was published the
\* log held the ServerEnlisted record of the row's server.
C32_AddLoggedFirst ==
    \A k \in 1..Len(published) :
        \A j \in 1..Len(published[k].incremental) :
            LET row == published[k].incremental[j]
            IN row.by = "add"
               => C32_Logged(log, published[k].logged, "ServerEnlisted",
                             row.entry.serverId)
\* A step of serverDown, of enlistServer (which takes replacesId down) or
\* of recoverServerDown: when a CRASHED or DOWN row it appended was
\* appended, the log held the ServerDown record of the row's server.
C32_DownLoggedFirst ==
    lastCall'.op \in {"serverDown", "enlistServer", "recoverServerDown"}
    => \A k \in (Len(AllRows) + 1)..Len(AllRows') :
          AllRows'[k].entry.status \in {CRASHED, DOWN}
          => C32_Logged(log', AllRows'[k].logged, "ServerDown",
                        AllRows'[k].entry.serverId)
\* C32: no batch containing a server's ADD row is published (version
\* bumped) before the ServerEnlisted record for that server has been
\* appended to the durable log, and no CRASHED or DOWN row produced by
\* serverDown is appended to the delta before the ServerDown record has
\* been appended.
C32_DurableBeforePublished ==
    []C32_AddLoggedFirst /\ [][C32_DownLoggedFirst]_vars
\* enlistServer has replaced a server: the CRASHED row of the replaced
\* server and the ADD row of the new one have been published, in two
\* batches, and the log holds a ServerDown and a ServerEnlisted record.
C32_Witness ==
    /\ lastCall.op = "enlistServer"
    /\ lastCall.exc = "none"
    /\ Len(published) >= 2
    /\ published[Len(published)].incremental[1].by = "add"
    /\ published[Len(published)].incremental[1].entry.serverId = lastCall.ret
    /\ RowsIn(published[Len(published) - 1].incremental,
              lastCall.serverId, CRASHED) # {}
    /\ C32_Logged(log, Len(log), "ServerDown", lastCall.serverId)
    /\ C32_Logged(log, Len(log), "ServerEnlisted", lastCall.ret)

\* --------------------------------------------------------------- C33
\* C33: after serverDown(S) completes, the durable log holds no valid
\* (non-invalidated) ServerEnlisting, ServerEnlisted, ServerDown or
\* ServerUpdate record for S, whether S had been enlisted by enlistServer
\* or restored into the list by a recover method after a coordinator
\* restart.
C33_NoValidRecordAfterServerDown ==
    [][(Returned("serverDown") /\ iget(serverList, lastCall'.serverId))
       => \A j \in 1..Len(log') :
             log'[j].server_id = lastCall'.serverId => ~log'[j].valid]_vars

\* --------------------------------------------------------------- C34
\* The UP backups (isBackup) of list sl with replication id g.
C34_Group(sl, g) ==
    {i \in DOMAIN sl :
        Occupied(sl, i) /\ isBackup(EntryAt(sl, i))
        /\ EntryAt(sl, i).replicationId = g}
\* Every nonzero replication id that some UP backup holds is held by
\* exactly numReplicas UP backups.
C34_GroupsComplete ==
    \A i \in DOMAIN serverList :
        (Occupied(serverList, i) /\ isBackup(EntryAt(serverList, i))
         /\ EntryAt(serverList, i).replicationId # 0)
        => Cardinality(C34_Group(serverList,
                                 EntryAt(serverList, i).replicationId))
              = numReplicas
\* Every row that records the assignment of a nonzero replication id is
\* the row of an UP backup whose row before it (its ADD row, or the row of
\* its last change) shows replication id 0.
C34_NewIdsForFreeBackups ==
    \A k \in 1..Len(AllRows) :
        LET row == AllRows[k]
            earlier == {j \in 1..(k - 1) :
                          AllRows[j].entry.serverId = row.entry.serverId}
        IN (row.by = "setReplicationId" /\ row.entry.replicationId # 0)
           => /\ row.entry.status = UP
              /\ BACKUP_SERVICE \in row.entry.services
              /\ earlier # {}
              /\ \A j \in earlier :
                    (\A m \in earlier : m <= j)
                    => /\ AllRows[j].entry.status = UP
                       /\ AllRows[j].entry.replicationId = 0
\* C34: after every mutator returns, each nonzero replicationId that is
\* held by some UP backup is held by exactly 3 UP backups, and
\* createReplicationGroup only ever assigns a new group id to backups that
\* are UP with replicationId 0 (for any sequence of enlistServer,
\* serverDown and removeAfterRecovery, including servers that are both
\* master and backup).
C34_GroupsOfThreeAlways ==
    C34_GroupsComplete /\ C34_NewIdsForFreeBackups

\* --------------------------------------------------------------- C35
\* removeReplicationGroup runs in serverDown(S), after S was marked
\* CRASHED, with the replication id g that S had. The step is such a
\* call: no UP backup is left with id g # 0; the servers with an id other
\* than 0 and g keep theirs; the rows that record a reset to 0 are as many
\* as the UP backups that had id g next to S, none if g = 0.
C35_ServerDownStep ==
    LET S == lastCall'.serverId
        g == EntryAt(serverList, S.index).replicationId
        members == C34_Group(serverList, g) \ {S.index}
        resets == {k \in (Len(AllRows) + 1)..Len(AllRows') :
                      /\ AllRows'[k].by = "setReplicationId"
                      /\ AllRows'[k].entry.replicationId = 0}
    IN (Returned("serverDown") /\ iget(serverList, S))
       => /\ g # 0 => C34_Group(serverList', g) = {}
          /\ \A i \in DOMAIN serverList :
                (/\ Occupied(serverList, i) /\ i # S.index
                 /\ EntryAt(serverList, i).replicationId \notin {0, g})
                => /\ Occupied(serverList', i)
                   /\ EntryAt(serverList', i).replicationId
                         = EntryAt(serverList, i).replicationId
          /\ Cardinality(resets) = IF g = 0 THEN 0 ELSE Cardinality(members)
\* C35: removeReplicationGroup(g) with g != 0 leaves no UP backup with
\* replicationId g, changes no other server's replicationId, and appends
\* exactly one delta row per backup whose replicationId it resets; with
\* g = 0 it changes nothing and appends no row.
C35_RemoveReplicationGroup ==
    [][C35_ServerDownStep]_vars

\* --------------------------------------------------------------- C36
\* The positions in the trackers' queue of the events `event' of `id'.
C36_EventsAt(id, event) ==
    {k \in 1..Len(events) : events[k] = <<id, event>>}
\* Per ServerId: each event at most once, SERVER_CRASHED after
\* SERVER_ADDED, SERVER_REMOVED after SERVER_CRASHED.
C36_OrderPerServer ==
    \A n \in 1..Len(events) :
        LET id == events[n][1]
            added == C36_EventsAt(id, "SERVER_ADDED")
            crash == C36_EventsAt(id, "SERVER_CRASHED")
            removed == C36_EventsAt(id, "SERVER_REMOVED")
        IN /\ Cardinality(added) <= 1
           /\ Cardinality(crash) <= 1
           /\ Cardinality(removed) <= 1
           /\ \A c \in crash : \E a \in added : a < c
           /\ \A r \in removed : \E c \in crash : c < r
\* The events that correspond to the ADD, CRASHED and DOWN rows of a
\* sequence of rows, from row k on.
RECURSIVE C36_EventsOfRows(_, _)
C36_EventsOfRows(rows, k) ==
    IF k > Len(rows) THEN <<>>
    ELSE (CASE rows[k].by = "add" ->
                   <<<<rows[k].entry.serverId, "SERVER_ADDED">>>>
            [] rows[k].by = "crashed" ->
                   <<<<rows[k].entry.serverId, "SERVER_CRASHED">>>>
            [] rows[k].by = "remove" ->
                   <<<<rows[k].entry.serverId, "SERVER_REMOVED">>>>
            [] OTHER -> <<>>)
         \o C36_EventsOfRows(rows, k + 1)
\* C36: for every ServerId, registered trackers receive its events in the
\* order ADDED, then CRASHED, then REMOVED, each at most once and REMOVED
\* never without a preceding CRASHED, and the events of all servers are
\* enqueued in the same relative order as the corresponding ADD, CRASHED
\* and DOWN rows are appended to the delta.
C36_EventsMirrorRows ==
    /\ C36_OrderPerServer
    /\ events = C36_EventsOfRows(AllRows, 1)
    /\ \A k \in 1..Len(AllRows) :
          AllRows[k].entry.status =
              CASE AllRows[k].by = "crashed" -> CRASHED
                [] AllRows[k].by = "remove" -> DOWN
                [] OTHER -> UP
\* A master was taken down by serverDown and removed after its recovery,
\* with another server enlisting in between: the trackers have seen four
\* events, three of them for the master.
C36_Witness ==
    /\ lastCall.op = "removeAfterRecovery"
    /\ lastCall.exc = "none"
    /\ Len(events) = 4
    /\ events[1] = <<lastCall.serverId, "SERVER_ADDED">>
    /\ events[2] = <<lastCall.serverId, "SERVER_CRASHED">>
    /\ events[3][2] = "SERVER_ADDED"
    /\ events[4] = <<lastCall.serverId, "SERVER_REMOVED">>

\* --------------------------------------------------------------- C37
\* C37: when any public operation that appends delta rows returns
\* (enlistServer, serverDown, removeAfterRecovery, recoverEnlistServer,
\* recoverServerDown), the pending unpublished delta is empty: every row
\* the operation appended has been published in a batch with its own
\* version.
C37_NothingPendingOnReturn ==
    (/\ lastCall.op \in {"enlistServer", "serverDown", "removeAfterRecovery",
                         "recoverEnlistServer", "recoverEnlistedServer",
                         "recoverServerDown"}
     /\ lastCall.exc = "none")
    => update = <<>>

\* --------------------------------------------------------------- C38
\* C38: no ServerId (index, generation) is ever issued to two different
\* servers, including when the second server is enlisted after a
\* coordinator restart that rebuilt the list by replaying the valid
\* records of the durable log onto an empty list.
C38_IdsNeverReissued ==
    \A j \in 1..Len(issued) : \A k \in (j + 1)..Len(issued) :
        issued[j].id # issued[k].id

\* --------------------------------------------------------------- C39
\* C39: when recoverMasterRecoveryInfo (SetMasterRecoveryInfo::complete)
\* is given a ServerId that is not in the list, it raises the NotFound
\* error (ServerListException), invalidates in the durable log exactly the
\* ServerUpdate record whose entry id it was given, and leaves the server
\* list unchanged.
C39_AbsentServerInvalidatesRecord ==
    [][(/\ phase = "recovering"
        /\ lastCall'.op = "recoverMasterRecoveryInfo"
        /\ ~iget(serverList, lastCall'.serverId))
       => /\ lastCall'.exc = "ServerListException"
          /\ serverList' = serverList
          /\ log' = invalidateIds(log, {Head(replay)})]_vars

\* --------------------------------------------------------------- C40
\* The condition on which getWork returns false without a scan, for a
\* list that is not empty.
C40_ShortCircuit ==
    /\ Size(serverList) # 0
    /\ numUpdatingServers > 0
    /\ lastScan.noWorkFoundForEpoch = version
\* The servers getWork would hand out an update for: UP, offering
\* MEMBERSHIP, out of date and with no rpc in flight.
C40_EligibleServers ==
    {e \in ListEntries :
        /\ e.status = UP
        /\ MEMBERSHIP_SERVICE \in e.services
        /\ e.updateVersion # version
        /\ e.updateVersion = e.verifiedVersion}
\* C40: whenever getWork takes its short-circuit (numUpdatingServers > 0
\* and noWorkFoundForEpoch == version) it modifies no state, and at that
\* moment no UP server offering MEMBERSHIP is eligible for work (none has
\* updateVersion != version with updateVersion == verifiedVersion), so
\* the short-circuit never hides available work.
C40_ShortCircuitHidesNoWork ==
    /\ [](C40_ShortCircuit => C40_EligibleServers = {})
    /\ [][(UpdaterGetWork /\ Len(rpcs) < max_rpcs /\ C40_ShortCircuit)
          => UNCHANGED <<cslVars, rpcs, max_rpcs, updaterPc>>]_vars
\* getWork is about to be called and will take the short-circuit: a scan
\* at the current version found no work, an rpc is in flight for one
\* server and another server has been brought to the current version.
C40_Witness ==
    /\ Running /\ updaterPc = "loop"
    /\ C40_ShortCircuit
    /\ version >= 2
    /\ Len(rpcs) = 1
    /\ \E e \in ListEntries :
          /\ e.serverId = rpcs[1].targetServer
          /\ e.status = UP
          /\ e.updateVersion = version
          /\ e.verifiedVersion # version
    /\ \E e \in ListEntries :
          /\ e.status = UP /\ MEMBERSHIP_SERVICE \in e.services
          /\ e.verifiedVersion = version
====
